---- MODULE Spec2Model ----
(***************************************************************************)
(* Recommendation / chat caching and rule-based fallback of RAGService     *)
(* (app/services/rag_service.py), as called by the API layer               *)
(* (app/api/recommendations.py, app/api/chat.py).                          *)
(*                                                                         *)
(* Conventions                                                             *)
(*   - An Optional[Union[int, str]] / Optional[Union[float, str]] field is *)
(*     a record [t, n]: t = "None" (absent), "str" (the "N/A" marker, a    *)
(*     non-empty string), "num" (the number n).                            *)
(*   - confidence scores are in tenths (6 is 0.6).                         *)
(*   - a Python call that may raise yields [raised, value].                *)
(*   - time is in seconds; one handler runs at one instant.                *)
(***************************************************************************)
EXTENDS Integers, Sequences, FiniteSets, TLC

VARIABLES
    credential,            \* GROQ_API_KEY is set in the process environment
    instance,              \* RAGService._instance is not None
    llm,                   \* self.llm is not None (so qa_chain and chat_chain exist)
    init_runs,             \* history: runs of the body of __init__ since the last reset
    recommendation_cache,  \* self.recommendation_cache: key -> [timestamp, response]
    chat_cache,            \* self.chat_cache:           key -> [timestamp, response]
    player_cache,          \* self.player_cache
    now,                   \* datetime.now(), in seconds
    last,                  \* the last handler that ran: its request and what it returned
    rec_stored,            \* history: what get_recommendations stored since the last clear
    chat_stored,           \* history: what chat stored since the last clear
    rb_pc, rb_in, rb_out,  \* application of _rule_based_recommendations to one list
    ch_pc, ch_in, ch_out,  \* application of _rule_based_chat to one message
    en_pc, en_in, en_out,  \* application of an enrichment operation to one list
    ms_pc, ms_in, ms_out,  \* application of _map_sleeper_player to one Sleeper record
    sc_disk,               \* the two files of the Sleeper cache
    sc_now,                \* time.time(), in seconds
    sc_api,                \* the last APIService constructed, and what it found
    pl_file,               \* data/players.json
    pl_last,               \* the last handler of the player catalogue that ran
    th_caches,             \* the caches of the RAGService that threads share
    th,                    \* the frame of each thread's call
    th_now,                \* datetime.now() of the threads, in seconds
    th_host,               \* how the host runs the calls, and self.llm is not None
    th_computed            \* history: when each key was last computed since a clear

svc_vars == <<credential, instance, llm, init_runs, recommendation_cache, chat_cache,
              player_cache, now, last, rec_stored, chat_stored>>
rb_vars == <<rb_pc, rb_in, rb_out>>
ch_vars == <<ch_pc, ch_in, ch_out>>
en_vars == <<en_pc, en_in, en_out>>
ms_vars == <<ms_pc, ms_in, ms_out>>
sc_vars == <<sc_disk, sc_now, sc_api>>
pl_vars == <<pl_file, pl_last>>
th_vars == <<th_caches, th, th_now, th_host, th_computed>>
probe_vars == <<rb_vars, ch_vars, en_vars, ms_vars, sc_vars, pl_vars, th_vars>>
vars == <<svc_vars, probe_vars>>

----------------------------------------------------------------------------
(* Bounds *)

MaxPlayers == 3    \* longest list handed to the rule-based fallback on its own
MaxMessage == 3    \* longest message handed to the rule-based chat on its own
MaxNow == 300      \* the clock stops advancing here
MaxInitRuns == 2   \* runs of the body of __init__ are counted up to here
MaxEnrich == 2     \* longest list handed to an enrichment operation on its own
MaxRank == 30      \* largest search_rank handed to _map_sleeper_player on its own
MaxSleeperNow == 86400   \* the clock of the Sleeper cache stops advancing here
MaxCatalogue == 2  \* the player catalogue is driven up to this many players
MaxThreadNow == 300   \* the clock of the threads stops advancing here
MaxBefore == 21    \* most players standing before the one whose enrichment is observed

----------------------------------------------------------------------------
(* Player and response values *)

NoneVal == [t |-> "None", n |-> 0]
NA == [t |-> "str", n |-> 0]
Num(k) == [t |-> "num", n |-> k]
Inf == [t |-> "inf", n |-> 0]

\* Python truthiness, as used by `x or default`
Truthy(v) == v.t = "str" \/ (v.t = "num" /\ v.n # 0)

Player(id, name, rank, projected_points) ==
    [id |-> id, name |-> name, rank |-> rank, projected_points |-> projected_points]

Recommendation(player, confidence_score) ==
    [player |-> player, confidence_score |-> confidence_score]

RecommendationResponse(primary, alternatives, notes) ==
    [primary_recommendation |-> primary,
     alternative_recommendations |-> alternatives,
     strategy_notes |-> notes]

NoPlayersAvailable ==
    RecommendationResponse(
        Recommendation(Player("", "No players available", Num(0), Num(0)), 0),
        <<>>, "No players available")

\* result of a call: a returned value or an exception leaving the call
Return(v) == [raised |-> FALSE, value |-> v]
NoResponse ==
    RecommendationResponse(Recommendation(Player("", "", NoneVal, NoneVal), 0),
                           <<>>, "")
Raise == [raised |-> TRUE, value |-> NoResponse]

----------------------------------------------------------------------------
(* _rule_based_recommendations *)

\* key=lambda p: (p.rank or float('inf'), -(p.projected_points or 0))
RankKey(p) == IF Truthy(p.rank) THEN p.rank ELSE Inf
PointsKey(p) == IF Truthy(p.projected_points) THEN 0 - p.projected_points.n ELSE 0

\* unary minus applied to a str
KeyRaises(p) == p.projected_points.t = "str"

\* '<' between a str and a number
CompareRaises(a, b) == a # b /\ ((a.t = "str") # (b.t = "str"))

RankLess(a, b) == a.t = "num" /\ (b.t = "inf" \/ (b.t = "num" /\ a.n < b.n))

\* tuple comparison of two sort keys
KeyLess(p, q) ==
    IF RankKey(p) = RankKey(q)
    THEN PointsKey(p) < PointsKey(q)
    ELSE RankLess(RankKey(p), RankKey(q))

\* sorted() raises TypeError: a key cannot be computed, or two keys of
\* different kinds meet in a comparison (they always do, in any list
\* holding both kinds)
SortRaises(s) ==
    \/ \E i \in 1..Len(s) : KeyRaises(s[i])
    \/ \E i, j \in 1..Len(s) : CompareRaises(RankKey(s[i]), RankKey(s[j]))

RECURSIVE InsertStable(_, _)
InsertStable(s, p) ==
    IF s = <<>> THEN <<p>>
    ELSE IF KeyLess(p, Head(s)) THEN <<p>> \o s
    ELSE <<Head(s)>> \o InsertStable(Tail(s), p)

\* sorted(available_players, key=...): stable
RECURSIVE sorted(_)
sorted(s) ==
    IF s = <<>> THEN <<>>
    ELSE InsertStable(sorted(SubSeq(s, 1, Len(s) - 1)), s[Len(s)])

Min(a, b) == IF a < b THEN a ELSE b

\* mutation: the alternatives are numbered from 1, so confidence starts at 0.4
Alternatives_from_one(sorted_players) ==
    [i \in 1..Min(2, Len(sorted_players) - 1) |->
        Recommendation(sorted_players[i + 1], 5 - i)]

\* sorted_players[1:3] with confidence 0.5 - i * 0.1
Alternatives(sorted_players) ==
    [i \in 1..Min(2, Len(sorted_players) - 1) |->
        Recommendation(sorted_players[i + 1], 5 - (i - 1))]

_rule_based_recommendations(available_players) ==
    IF available_players = <<>> THEN Return(NoPlayersAvailable)
    ELSE IF SortRaises(available_players) THEN Raise
    ELSE LET sorted_players == sorted(available_players)
         IN  Return(RecommendationResponse(
                 Recommendation(sorted_players[1], 6),
                 Alternatives(sorted_players),
                 "Using rule-based recommendations with actual player data"))

----------------------------------------------------------------------------
(* Text *)

\* str.lower() on the names that occur
lower(s) ==
    CASE s = "A" -> "a"
      [] s = "B" -> "b"
      [] s = "C" -> "c"
      [] s = "D" -> "d"
      [] s = "E" -> "e"
      [] s = "F" -> "f"
      [] s = "G" -> "g"
      [] s = "Zed" -> "zed"
      [] s = "What's my draft" -> "what's my draft"
      [] s = "WHAT'S MY DRAFT" -> "what's my draft"
      [] s = "Strategy" -> "strategy"
      [] s = "STRATEGY" -> "strategy"
      [] s = "Recommend" -> "recommend"
      [] s = "Who" -> "who"
      [] s = "Position" -> "position"
      [] s = "Pat" -> "pat"
      [] s = "Mahomes" -> "mahomes"
      [] s = "Josh" -> "josh"
      [] s = "Allen" -> "allen"
      [] s = "Smith" -> "smith"
      [] s = "Jones" -> "jones"
      [] OTHER -> s

\* sep.join(strings)
RECURSIVE join(_, _)
join(sep, strings) ==
    IF strings = <<>> THEN ""
    ELSE IF Len(strings) = 1 THEN strings[1]
    ELSE strings[1] \o sep \o join(sep, Tail(strings))

----------------------------------------------------------------------------
(* Recommendation cache *)

cache_duration == 300

\* available_players[:5]
KeyPrefix == 5

\* mutation: the key is built from the names of all available players
_get_cache_key_all_names(available_players, user_team, draft_context) ==
    LET player_names == [i \in 1..Len(available_players) |-> available_players[i].name]
        context == ToString(draft_context.current_round) \o "-"
                       \o ToString(draft_context.current_pick)
    IN  join("-", player_names) \o ":" \o join("-", user_team.players) \o ":" \o context

_get_cache_key(available_players, user_team, draft_context) ==
    LET top == SubSeq(available_players, 1, Min(KeyPrefix, Len(available_players)))
        player_names == [i \in 1..Len(top) |-> top[i].name]
        team_players == user_team.players
        context == ToString(draft_context.current_round) \o "-"
                       \o ToString(draft_context.current_pick)
    IN  join("-", player_names) \o ":" \o join("-", team_players) \o ":" \o context

\* mutation: the comparison is the wrong way round
_is_cache_valid_inverted(cache_entry) == now - cache_entry.timestamp > cache_duration

\* mutation: an entry of age cache_duration is still served
_is_cache_valid_inclusive(cache_entry) == now - cache_entry.timestamp <= cache_duration

\* datetime.now() - timestamp < timedelta(seconds=self.cache_duration)
_is_cache_valid(cache_entry) == now - cache_entry.timestamp < cache_duration

RECURSIVE _find_player_by_name(_, _)
_find_player_by_name(name, players) ==
    IF players = <<>> THEN <<>>
    ELSE IF lower(Head(players).name) = lower(name) THEN <<Head(players)>>
    ELSE _find_player_by_name(name, Tail(players))

\* what qa_chain(query) can do: raise, answer text that holds no JSON object,
\* or answer a JSON object naming a primary player and alternatives
BackendResult(kind, primary, alternatives) ==
    [kind |-> kind, primary |-> primary, alternatives |-> alternatives]

RECURSIVE FoundAlternatives(_, _)
FoundAlternatives(names, available_players) ==
    IF names = <<>> THEN <<>>
    ELSE LET alt_player == _find_player_by_name(Head(names), available_players)
             rest == FoundAlternatives(Tail(names), available_players)
         IN  IF alt_player # <<>>
             THEN <<Recommendation(alt_player[1], 7)>> \o rest
             ELSE rest

_parse_recommendation_response(result, available_players) ==
    IF result.kind # "json"
    THEN _rule_based_recommendations(available_players)
    ELSE LET primary_player == _find_player_by_name(result.primary, available_players)
         IN  IF primary_player = <<>>
             THEN _rule_based_recommendations(available_players)
             ELSE Return(RecommendationResponse(
                      Recommendation(primary_player[1], 9),
                      FoundAlternatives(result.alternatives, available_players),
                      "backend"))

\* whether _parse_recommendation_response reaches the rule-based fallback
ParseFallsBack(result, available_players) ==
    result.kind # "json" \/ _find_player_by_name(result.primary, available_players) = <<>>

Remove(cache, key) == [k \in DOMAIN cache \ {key} |-> cache[k]]
Put(cache, key, entry) == (key :> entry) @@ cache
CacheEntry(timestamp, response) == [timestamp |-> timestamp, response |-> response]

\* get_recommendations on the instance whose llm and recommendation cache are
\* given; backend is what qa_chain does if it is called
get_recommendations(has_llm, cache, request, backend) ==
    LET available_players == request.available_players
        cache_key == _get_cache_key(available_players, request.user_team,
                                    request.draft_context)
        valid == cache_key \in DOMAIN cache /\ _is_cache_valid(cache[cache_key])
        pruned == Remove(cache, cache_key)
        computed ==
            IF has_llm /\ backend.kind # "raise"
            THEN _parse_recommendation_response(backend, available_players)
            ELSE _rule_based_recommendations(available_players)
        fallback == \/ ~has_llm
                    \/ backend.kind = "raise"
                    \/ ParseFallsBack(backend, available_players)
    IN  IF valid
        THEN [result |-> Return(cache[cache_key].response), cache |-> cache,
              key |-> cache_key, hit |-> TRUE, backend |-> FALSE, fallback |-> FALSE]
        ELSE [result |-> computed,
              cache |-> IF computed.raised THEN pruned
                        ELSE Put(pruned, cache_key, CacheEntry(now, computed.value)),
              key |-> cache_key, hit |-> FALSE, backend |-> has_llm,
              fallback |-> fallback]

----------------------------------------------------------------------------
(* Chat.  A message is a sequence of pieces of text: words, punctuation and *)
(* " " (whitespace); `x in message` is containment of a run of pieces.      *)

ChatResponse(response, confidence) == [response |-> response, confidence |-> confidence]
ChatRequest(message, draft_context) == [message |-> message, draft_context |-> draft_context]

\* Optional[Dict]: None, or the items of the dict in insertion order
NoContext == [present |-> FALSE, items |-> <<>>]
Dict(items) == [present |-> TRUE, items |-> items]

\* str(request.draft_context)
str(draft_context) ==
    IF ~draft_context.present THEN "None"
    ELSE LET items == draft_context.items
         IN  "{" \o join(", ", [i \in 1..Len(items) |->
                                   "'" \o items[i][1] \o "': " \o items[i][2]]) \o "}"

lower_message(message) == [i \in 1..Len(message) |-> lower(message[i])]

\* str.strip(): drops leading and trailing whitespace
RECURSIVE lstrip(_)
lstrip(message) ==
    IF message # <<>> /\ Head(message) = " " THEN lstrip(Tail(message)) ELSE message

RECURSIVE rstrip(_)
rstrip(message) ==
    IF message # <<>> /\ message[Len(message)] = " "
    THEN rstrip(SubSeq(message, 1, Len(message) - 1))
    ELSE message

strip(message) == rstrip(lstrip(message))

\* the builtin hash(): a function of the text alone within one process;
\* distinct texts are taken to have distinct hashes
hash(text) == <<"hash", text>>

\* mutation: the message is hashed as written
_get_chat_cache_key_raw(request) ==
    <<"chat", hash(request.message), hash(str(request.draft_context))>>

_get_chat_cache_key(request) ==
    LET message_hash == hash(strip(lower_message(request.message)))
        context_hash == hash(str(request.draft_context))
    IN  <<"chat", message_hash, context_hash>>

\* `piece in message`
Contains(message, piece) ==
    \E i \in 1..Len(message) :
        /\ i + Len(piece) - 1 <= Len(message)
        /\ SubSeq(message, i, i + Len(piece) - 1) = piece

\* mutation: the "strategy" row is tested first
_rule_based_chat_strategy_first(request) ==
    LET message == lower_message(request.message)
        response ==
            IF Contains(message, <<"strategy">>)
            THEN "Focus on building a balanced team."
            ELSE IF Contains(message, <<"recommend">>)
                   \/ Contains(message, <<"who", " ", "should">>)
            THEN "Based on your current draft position, I recommend taking the best available player"
            ELSE IF Contains(message, <<"position">>)
            THEN "Consider your team's current position distribution"
            ELSE "I'm here to help with your fantasy football draft!"
    IN  [response |-> response, confidence |-> 6]

_rule_based_chat(request) ==
    LET message == lower_message(request.message)
        response ==
            IF Contains(message, <<"recommend">>)
                   \/ Contains(message, <<"who", " ", "should">>)
            THEN "Based on your current draft position, I recommend taking the best available player"
            ELSE IF Contains(message, <<"strategy">>)
            THEN "Focus on building a balanced team."
            ELSE IF Contains(message, <<"position">>)
            THEN "Consider your team's current position distribution"
            ELSE "I'm here to help with your fantasy football draft!"
    IN  ChatResponse(response, 6)

\* what chat_chain(...) can do: raise, or answer with or without source documents
ChatBackendResult(kind, answer, source_documents) ==
    [kind |-> kind, answer |-> answer, source_documents |-> source_documents]

\* chat on the instance whose llm and chat cache are given
chat(has_llm, cache, request, backend) ==
    LET cache_key == _get_chat_cache_key(request)
        valid == cache_key \in DOMAIN cache /\ _is_cache_valid(cache[cache_key])
        pruned == Remove(cache, cache_key)
        response ==
            IF has_llm /\ backend.kind # "raise"
            THEN ChatResponse(backend.answer, IF backend.source_documents THEN 9 ELSE 7)
            ELSE _rule_based_chat(request)
    IN  IF valid
        THEN [result |-> Return(cache[cache_key].response), cache |-> cache,
              key |-> cache_key, hit |-> TRUE, backend |-> FALSE, fallback |-> FALSE]
        ELSE [result |-> Return(response),
              cache |-> Put(pruned, cache_key, CacheEntry(now, response)),
              key |-> cache_key, hit |-> FALSE, backend |-> has_llm,
              fallback |-> ~has_llm \/ backend.kind = "raise"]

----------------------------------------------------------------------------
(* Cache management *)

Caches(rc, cc, pc) ==
    [recommendation_cache |-> rc, chat_cache |-> cc, player_cache |-> pc]

\* mutation: the chat cache is not cleared
clear_cache_keeps_chat(caches) ==
    [recommendation_cache |-> <<>>, chat_cache |-> caches.chat_cache,
     player_cache |-> <<>>]

clear_cache(caches) == Caches(<<>>, <<>>, <<>>)

\* mutation: the recommendation cache is cleared with the chat cache
clear_chat_cache_and_recommendations(caches) ==
    Caches(<<>>, <<>>, caches.player_cache)

clear_chat_cache(caches) ==
    Caches(caches.recommendation_cache, <<>>, caches.player_cache)

Stats(rs, cs, ps) ==
    [recommendation_cache_size |-> rs, chat_cache_size |-> cs, player_cache_size |-> ps,
     cache_duration_seconds |-> cache_duration]

\* mutation: only the entries that are still valid are counted
get_cache_stats_live_only(caches) ==
    Stats(Cardinality({k \in DOMAIN caches.recommendation_cache :
                           _is_cache_valid(caches.recommendation_cache[k])}),
          Cardinality({k \in DOMAIN caches.chat_cache :
                           _is_cache_valid(caches.chat_cache[k])}),
          Cardinality(DOMAIN caches.player_cache))

get_cache_stats(caches) ==
    Stats(Cardinality(DOMAIN caches.recommendation_cache),
          Cardinality(DOMAIN caches.chat_cache),
          Cardinality(DOMAIN caches.player_cache))

----------------------------------------------------------------------------
(* Requests the service is driven with *)

pA == Player("1", "A", Num(5), Num(100))
pB == Player("2", "B", Num(2), Num(150))
pC == Player("3", "C", Num(7), Num(90))
pD == Player("4", "D", Num(8), Num(80))
pE == Player("5", "E", NoneVal, Num(70))
pF == Player("6", "F", Num(9), Num(60))
pG == Player("7", "G", Num(1), Num(200))
pA_NA == Player("1", "A", NA, NA)
pNoName == Player("8", "", Num(1), Num(50))

TeamRoster(players) == [players |-> players]
DraftContext(current_round, current_pick) ==
    [current_round |-> current_round, current_pick |-> current_pick]
RecommendationRequest(available_players, user_team, draft_context) ==
    [available_players |-> available_players, user_team |-> user_team,
     draft_context |-> draft_context]

RecRequests ==
    { RecommendationRequest(l, TeamRoster(<<>>), DraftContext(1, 1)) :
        l \in { <<>>, <<pNoName>>,
                <<pA, pB, pC, pD, pE, pF>>,
                <<pA, pB, pC, pD, pE, pG>>,
                <<pA_NA, pB, pC, pD, pE, pF>> } }
    \cup { RecommendationRequest(<<>>, TeamRoster(<<"R">>), DraftContext(1, 1)) }

\* the requests used where the recommendation and the chat cache are
\* exercised together
FewRecRequests ==
    { RecommendationRequest(l, TeamRoster(<<>>), DraftContext(1, 1)) :
        l \in { <<>>, <<pA, pB>> } }

BackendResults ==
    { BackendResult("raise", "", <<>>),
      BackendResult("text", "", <<>>),
      BackendResult("json", "b", <<"A", "Zed">>),
      BackendResult("json", "Zed", <<>>) }

ChatRequests ==
    { ChatRequest(<<"What's my draft", " ", "strategy", "?">>, NoContext),
      ChatRequest(<<" ", "WHAT'S MY DRAFT", " ", "STRATEGY", "?", " ">>, NoContext),
      ChatRequest(<<"What's my draft", " ", "strategy", "?">>,
                  Dict(<<<<"current_round", "1">>>>)),
      ChatRequest(<<"Who", " ", "should", " ", "I pick">>, NoContext) }

FewChatRequests ==
    { ChatRequest(<<"What's my draft", " ", "strategy", "?">>, NoContext),
      ChatRequest(<<"Who", " ", "should", " ", "I pick">>, NoContext) }

ChatBackendResults ==
    { ChatBackendResult("raise", "", FALSE),
      ChatBackendResult("answer", "answer", TRUE),
      ChatBackendResult("answer", "answer", FALSE) }

\* the clock advances by one of these amounts
TickSteps == {299, 300}

----------------------------------------------------------------------------
(* Player data of the Sleeper API (app/services/api_service.py).  A name   *)
(* is a sequence of pieces of text, like a chat message.  An Optional[str] *)
(* or Optional[Position] is <<>> (None) or <<s>>.  projected_points are in *)
(* points, adp and value_score in tenths.                                  *)

\* models/player.py Player with all its fields
FullPlayer(id, name, position, team, rank, adp, projected_points, value_score, injury_status, bye_week, age, experience) ==
    [id |-> id, name |-> name, position |-> position, team |-> team,
     rank |-> rank, adp |-> adp, projected_points |-> projected_points,
     value_score |-> value_score, injury_status |-> injury_status,
     bye_week |-> bye_week, age |-> age, experience |-> experience]

\* one value of the Sleeper players dict
PlayerData(first_name, last_name, search_full_name, position, team, search_rank, age, years_exp, injury_status) ==
    [first_name |-> first_name, last_name |-> last_name,
     search_full_name |-> search_full_name, position |-> position, team |-> team,
     search_rank |-> search_rank, age |-> age, years_exp |-> years_exp,
     injury_status |-> injury_status]

Max(a, b) == IF a > b THEN a ELSE b

Positions == {"QB", "RB", "WR", "TE", "K", "DEF"}

_map_sleeper_position(position_str) ==
    IF position_str \in Positions THEN <<position_str>> ELSE <<>>

position_bases(position) ==
    CASE position = "QB" -> [top |-> 350, mid |-> 280, bottom |-> 200]
      [] position = "RB" -> [top |-> 280, mid |-> 200, bottom |-> 120]
      [] position = "WR" -> [top |-> 220, mid |-> 160, bottom |-> 100]
      [] position = "TE" -> [top |-> 150, mid |-> 120, bottom |-> 80]
      [] position = "K" -> [top |-> 160, mid |-> 130, bottom |-> 110]
      [] position = "DEF" -> [top |-> 140, mid |-> 120, bottom |-> 100]

_generate_projection_from_rank(rank, position) ==
    LET base == position_bases(position)
        projection == IF rank <= 50 THEN base.top
                      ELSE IF rank <= 150 THEN base.mid
                      ELSE base.bottom
        variance == (rank % 20) - 10
    IN  Max(50, projection + variance)

\* the search_rank Sleeper gives to a player it does not rank
NoSearchRank == 9999999

\* round(x / 3) for an integer x
RoundThird(x) == (2 * x + 3) \div 6

\* mutation: the difference is added undivided and without the clamps
value_score_of_unclamped(rank, adp) ==
    IF adp > 0 /\ rank > 0
    THEN 70 + 10 * (adp - rank)
    ELSE Max(10, RoundThird(300 - rank))

\* value_score (in tenths) from the rank and the synthetic ADP (in picks)
value_score_of(rank, adp) ==
    IF adp > 0 /\ rank > 0
    THEN LET adp_rank_diff == adp - rank
         IN  IF adp_rank_diff > 0
             THEN Min(100, 70 + adp_rank_diff)
             ELSE Max(10, 70 + adp_rank_diff)
    ELSE Max(10, RoundThird(300 - rank))

\* _map_sleeper_player; id_hash is hash(player_id) % 20 in this process.
\* <<>> is None.
_map_sleeper_player(player_id, id_hash, player_data) ==
    LET full_name == strip(player_data.first_name \o <<" ">> \o player_data.last_name)
        position == _map_sleeper_position(player_data.position)
        team == IF player_data.team = <<>> THEN "FA" ELSE player_data.team[1]
        search_rank == player_data.search_rank
        ranked == Truthy(search_rank) /\ search_rank # Num(NoSearchRank)
        rank == search_rank.n
        adp_variance == id_hash - 10
        adp == Max(1, rank + adp_variance)
    IN  IF full_name = <<>> THEN <<>>
        ELSE IF position = <<>> THEN <<>>
        ELSE IF ranked
        THEN <<FullPlayer(player_id, full_name, position[1], team,
                          Num(rank), Num(10 * adp),
                          Num(_generate_projection_from_rank(rank, position[1])),
                          Num(value_score_of(rank, adp)),
                          player_data.injury_status, NoneVal,
                          player_data.age, player_data.years_exp)>>
        ELSE <<FullPlayer(player_id, full_name, position[1], team,
                          NA, NA, NA, NA,
                          player_data.injury_status, NoneVal,
                          player_data.age, player_data.years_exp)>>

\* `piece in text` for str
In(piece, text) == piece = <<>> \/ Contains(text, piece)

\* str.split(): the maximal runs without whitespace
RECURSIVE split(_)
split(text) ==
    LET s == lstrip(text)
        ends == {i \in 1..Len(s) : s[i] = " "}
        n == IF ends = {} THEN Len(s) + 1
             ELSE CHOOSE i \in ends : \A j \in ends : i <= j
    IN  IF s = <<>> THEN <<>>
        ELSE <<SubSeq(s, 1, n - 1)>> \o split(SubSeq(s, n, Len(s)))

\* a record whose search_full_name is null: None has no lower()
ProcessingRaises(player_data) == player_data.search_full_name = <<>>

\* the test of one cached record against the lower-cased search name
NameMatches(search_name, player_data) ==
    LET full_name == lower_message(player_data.first_name \o <<" ">>
                                       \o player_data.last_name)
        search_full_name == lower_message(player_data.search_full_name[1])
    IN  \/ In(search_name, full_name)
        \/ In(full_name, search_name)
        \/ In(search_name, search_full_name)
        \/ \E i \in 1..Len(split(search_name)) : In(split(search_name)[i], full_name)

\* the loop over self._sleeper_players_cache.items(): the first record that
\* matches and maps to a player
RECURSIVE FirstMatch(_, _)
FirstMatch(items, search_name) ==
    IF items = <<>> THEN <<>>
    ELSE LET item == Head(items)
             player == _map_sleeper_player(item.player_id, item.id_hash, item.player_data)
         IN  IF /\ ~ProcessingRaises(item.player_data)
                /\ NameMatches(search_name, item.player_data)
                /\ player # <<>>
             THEN player
             ELSE FirstMatch(Tail(items), search_name)

\* self._sleeper_players_cache: None, or the items of the dict in order
NoSleeperCache == [present |-> FALSE, items |-> <<>>]
SleeperCache(items) == [present |-> TRUE, items |-> items]
Item(player_id, id_hash, player_data) ==
    [player_id |-> player_id, id_hash |-> id_hash, player_data |-> player_data]

get_sleeper_player_by_name(cache, player_name) ==
    IF ~cache.present \/ cache.items = <<>> THEN <<>>
    ELSE FirstMatch(cache.items, lower_message(player_name))

\* player_names[:20]
NameLimit == 20

RECURSIVE FoundPlayers(_, _)
FoundPlayers(cache, search_names) ==
    IF search_names = <<>> THEN <<>>
    ELSE get_sleeper_player_by_name(cache, Head(search_names))
             \o FoundPlayers(cache, Tail(search_names))

get_sleeper_players_by_names(cache, player_names) ==
    IF ~cache.present \/ cache.items = <<>> THEN <<>>
    ELSE FoundPlayers(cache, SubSeq(player_names, 1, Min(NameLimit, Len(player_names))))

----------------------------------------------------------------------------
(* Enrichment of players with Sleeper data (app/services/player_service.py) *)

\* Python truthiness of a str
NonEmpty(text) == text # <<>>

RECURSIVE NamesOf(_)
NamesOf(available_players) ==
    IF available_players = <<>> THEN <<>>
    ELSE (IF NonEmpty(Head(available_players).name)
          THEN <<Head(available_players).name>> ELSE <<>>)
             \o NamesOf(Tail(available_players))

\* {player.name.lower(): player for player in sleeper_players}: a later
\* player replaces an earlier one of the same key
RECURSIVE sleeper_lookup(_)
sleeper_lookup(sleeper_players) ==
    IF sleeper_players = <<>> THEN <<>>
    ELSE LET player == sleeper_players[Len(sleeper_players)]
             earlier == sleeper_lookup(SubSeq(sleeper_players, 1,
                                              Len(sleeper_players) - 1))
         IN  (lower_message(player.name) :> player) @@ earlier

\* mutation: any non-None local value wins, "N/A" included
MergedPoints_keeps_marker(player, sleeper_player) ==
    IF player.projected_points # NoneVal
    THEN player.projected_points
    ELSE sleeper_player.projected_points

\* player.projected_points if player.projected_points and
\* player.projected_points != "N/A" else sleeper_player.projected_points
MergedPoints(player, sleeper_player) ==
    IF Truthy(player.projected_points) /\ player.projected_points # NA
    THEN player.projected_points
    ELSE sleeper_player.projected_points

\* mutation: the player is identified by the Sleeper record
Enriched_sleeper_identity(player, sleeper_player) ==
    FullPlayer(sleeper_player.id, sleeper_player.name, sleeper_player.position,
               sleeper_player.team,
               sleeper_player.rank, sleeper_player.adp,
               MergedPoints(player, sleeper_player), sleeper_player.value_score,
               sleeper_player.injury_status, player.bye_week,
               sleeper_player.age, sleeper_player.experience)

\* the player built when Sleeper data was found
Enriched(player, sleeper_player) ==
    FullPlayer(player.id, player.name, player.position, player.team,
               sleeper_player.rank, sleeper_player.adp,
               MergedPoints(player, sleeper_player), sleeper_player.value_score,
               sleeper_player.injury_status, player.bye_week,
               sleeper_player.age, sleeper_player.experience)

\* the player built when no Sleeper data was found
Kept(player) ==
    FullPlayer(player.id, player.name, player.position, player.team,
               player.rank, player.adp, player.projected_points, player.value_score,
               player.injury_status, player.bye_week, player.age, player.experience)

\* mutation: the fallback stops at the first player
fallback_players_first_only(available_players) ==
    [i \in 1..Min(1, Len(available_players)) |-> Kept(available_players[i])]

\* the list built by the except branch
fallback_players(available_players) ==
    [i \in 1..Len(available_players) |-> Kept(available_players[i])]

\* what APIService() is when enrich_recommendation_players constructs it: it
\* raises, or it holds a Sleeper cache or none
ApiRaises == [raises |-> TRUE, cache |-> NoSleeperCache]
ApiService(cache) == [raises |-> FALSE, cache |-> cache]

enrich_recommendation_players(available_players, api_service) ==
    LET player_names == NamesOf(available_players)
        sleeper_players == get_sleeper_players_by_names(api_service.cache, player_names)
        lookup == sleeper_lookup(sleeper_players)
        enriched(player) ==
            IF lower_message(player.name) \in DOMAIN lookup
            THEN Enriched(player, lookup[lower_message(player.name)])
            ELSE Kept(player)
    IN  IF player_names = <<>> THEN available_players
        ELSE IF api_service.raises THEN fallback_players(available_players)
        ELSE [i \in 1..Len(available_players) |-> enriched(available_players[i])]

\* enrich_player_with_api_data: fresh is the cache of the APIService that
\* get_player_by_name constructs, own the cache of self.api_service.  The
\* result is the returned player and the players handed to add_player.
\* Player has no attribute last_year_points: evaluating it raises, and the
\* except branch returns the original player.
enrich_player_with_api_data(player, fresh, own) ==
    LET cached_player == get_sleeper_player_by_name(fresh, player.name)
        enriched_player == get_sleeper_player_by_name(own, player.name)
        original == [player |-> player, added |-> <<>>]
    IN  IF cached_player # <<>> /\ Truthy(cached_player[1].projected_points)
        THEN original
        ELSE IF enriched_player = <<>> THEN original
        ELSE IF Truthy(enriched_player[1].projected_points)
        THEN [player |-> enriched_player[1], added |-> enriched_player]
        ELSE original

\* get_enriched_players: fresh[i] is the cache of the APIService constructed
\* for the i-th player
get_enriched_players(players, fresh, own) ==
    LET each == [i \in 1..Len(players) |->
                    enrich_player_with_api_data(players[i], fresh[i], own)]
        added(i) == each[i].added
        RECURSIVE Added(_)
        Added(n) == IF n = 0 THEN <<>> ELSE Added(n - 1) \o added(n)
    IN  [players |-> [i \in 1..Len(players) |-> each[i].player],
         added |-> Added(Len(players))]

----------------------------------------------------------------------------
(* Inputs of the enrichment operations *)

nPatrickMahomes == <<"pat", "rick", " ", "mahomes">>
nMahomes == <<"Mahomes">>
nJoshAllen == <<"Josh", " ", "Allen">>
nZed == <<"Zed">>

\* a player as the client sends it
Local(id, name, position, team, projected_points) ==
    FullPlayer(id, name, position, team, Num(3), Num(35), projected_points, Num(88),
               <<"Healthy">>, Num(9), Num(30), Num(4))

LocalPlayers ==
    { Local("p1", nPatrickMahomes, "QB", "KC", projected_points) :
          projected_points \in {Num(120), Num(0), NA, NoneVal} }
    \cup { Local("p2", nMahomes, "QB", "KC", Num(120)),
           Local("p3", nJoshAllen, "QB", "BUF", NoneVal),
           Local("p4", nZed, "WR", "FA", Num(0)),
           Local("p5", <<>>, "K", "FA", Num(50)) }

LocalLists == UNION { [1..n -> LocalPlayers] : n \in 0..MaxEnrich }

dMahomes == PlayerData(<<"Pat", "rick">>, <<"Mahomes">>, << <<"pat", "rick", "mahomes">> >>,
                       "QB", <<"KC">>, Num(5), Num(28), Num(7), <<>>)
dAllen == PlayerData(<<"Josh">>, <<"Allen">>, << <<"josh", "allen">> >>,
                     "QB", <<"BUF">>, Num(NoSearchRank), Num(27), Num(6),
                     <<"Questionable">>)
dLineman == PlayerData(<<"Zed">>, <<"Smith">>, << <<"zed", "smith">> >>,
                       "OL", <<>>, Num(900), Num(25), Num(2), <<>>)
dUnnamed == PlayerData(<<"Zed">>, <<"Jones">>, <<>>,
                       "WR", <<>>, Num(40), NoneVal, NoneVal, <<>>)

\* hash(player_id) % 20 of the ids of the catalogue
IdHashes == {0, 19}

Catalogue(id_hash) ==
    SleeperCache(<<Item("9001", id_hash, dLineman), Item("9002", id_hash, dUnnamed),
                   Item("4046", id_hash, dMahomes), Item("4984", id_hash, dAllen)>>)

SleeperCaches ==
    {NoSleeperCache, SleeperCache(<<>>)} \cup {Catalogue(id_hash) : id_hash \in IdHashes}

FewSleeperCaches == {NoSleeperCache, Catalogue(19)}

ApiServices == {ApiRaises} \cup {ApiService(cache) : cache \in SleeperCaches}

EnrichInput(players, api_service, fresh, own) ==
    [players |-> players, api_service |-> api_service, fresh |-> fresh, own |-> own]
EnrichOutput(players, added) == [players |-> players, added |-> added]

----------------------------------------------------------------------------
(* The Sleeper cache on disk and the construction of an APIService         *)
(* (app/services/api_service.py).  Time is in seconds.                     *)

\* self._cache_duration = 24 * 60 * 60
_cache_duration == 86400

\* data/sleeper_players_cache.json and data/sleeper_cache_timestamp.txt:
\* <<>> if the file does not exist, else <<its content>>
Disk(cache_file, timestamp_file) ==
    [cache_file |-> cache_file, timestamp_file |-> timestamp_file]

\* what requests.get does: it raises ("raise": connection error, timeout), it
\* answers with a status other than 200 ("status"), or it answers 200 with
\* the players, which are then saved ("ok") or cannot be written ("unsaved")
Fetch(kind, players_data) == [kind |-> kind, players_data |-> players_data]
NoFetch == Fetch("not attempted", <<>>)

\* the APIService after __init__, with the files as it leaves them
Constructed(cache, timestamp, disk, fetch) ==
    [cache |-> cache, timestamp |-> timestamp, disk |-> disk, fetch |-> fetch]

\* mutation: a status other than 200 raises like any other failure
_fetch_sleeper_players_raise_for_status(disk, sc_time, timestamp, fetch) ==
    IF fetch.kind = "ok"
    THEN Constructed(<<fetch.players_data>>, <<sc_time>>,
                     Disk(<<fetch.players_data>>, <<sc_time>>), fetch)
    ELSE IF fetch.kind = "unsaved"
    THEN Constructed(<<>>, timestamp, disk, fetch)
    ELSE Constructed(disk.cache_file, timestamp, disk, fetch)

\* _fetch_sleeper_players with _save_sleeper_cache; timestamp is
\* self._sleeper_cache_timestamp as _load_sleeper_cache left it
_fetch_sleeper_players(disk, sc_time, timestamp, fetch) ==
    IF fetch.kind = "ok"
    THEN Constructed(<<fetch.players_data>>, <<sc_time>>,
                     Disk(<<fetch.players_data>>, <<sc_time>>), fetch)
    ELSE IF fetch.kind \in {"status", "unsaved"}
    THEN Constructed(<<>>, timestamp, disk, fetch)
    ELSE Constructed(disk.cache_file, timestamp, disk, fetch)

_load_sleeper_cache(disk, sc_time, fetch) ==
    LET both == disk.cache_file # <<>> /\ disk.timestamp_file # <<>>
        timestamp == IF both THEN disk.timestamp_file ELSE <<>>
    IN  IF both /\ sc_time - timestamp[1] < _cache_duration
        THEN Constructed(disk.cache_file, timestamp, disk, NoFetch)
        ELSE _fetch_sleeper_players(disk, sc_time, timestamp, fetch)

\* whether _load_sleeper_cache goes on to fetch
Fetches(disk, sc_time) == _load_sleeper_cache(disk, sc_time, Fetch("status", <<>>)).fetch # NoFetch

OldData == <<Item("4046", 0, dMahomes)>>
NewData == <<Item("4046", 0, dMahomes), Item("4984", 0, dAllen)>>

FetchOutcomes ==
    {Fetch("raise", <<>>), Fetch("status", <<>>), Fetch("unsaved", NewData),
     Fetch("ok", OldData), Fetch("ok", NewData)}

SleeperTickSteps == {43200, 86399, 86400}

NoApi == [op |-> "none", api |-> Constructed(<<>>, <<>>, Disk(<<>>, <<>>), NoFetch),
          before |-> Disk(<<>>, <<>>), at |-> 0]

IdleSc == sc_disk = Disk(<<>>, <<>>) /\ sc_now = 0 /\ sc_api = NoApi

IdleMs ==
    /\ ms_pc = "idle"
    /\ ms_in = Item("", 0, PlayerData(<<>>, <<>>, <<>>, "", <<>>, NoneVal, NoneVal,
                                       NoneVal, <<>>))
    /\ ms_out = <<>>

----------------------------------------------------------------------------
(* The player catalogue (app/services/player_service.py) and the handlers  *)
(* of the API layer that read and change it (app/api/players.py,           *)
(* app/api/recommendations.py).  self.players_cache is a dict: the sequence *)
(* of its items in insertion order.  Every request constructs its own      *)
(* PlayerService, which loads the catalogue from the JSON file.            *)

\* str.upper() on the position strings that occur
upper(s) ==
    CASE s = "qb" -> "QB"
      [] s = "Qb" -> "QB"
      [] s = "wr" -> "WR"
      [] s = "flex" -> "FLEX"
      [] s = "analysis" -> "ANALYSIS"
      [] OTHER -> s

\* Position(value) raises ValueError
PositionRaises(value) == value \notin Positions

\* what a handler answers: the status code with the detail of an
\* HTTPException, or 200 with a body
HTTPException(status_code, detail) ==
    [status_code |-> status_code, detail |-> detail, body |-> <<>>]
Response(body) == [status_code |-> 200, detail |-> <<>>, body |-> body]

\* str(e) of an HTTPException: "400: Invalid position: XYZ" where the class
\* defines __str__, the empty string where it does not
StrForms == {"status and detail", "empty"}
StrOf(form, e) ==
    IF form = "empty" THEN <<>> ELSE <<ToString(e.status_code), ": ">> \o e.detail

\* dict operations on a sequence of items
DictItem(key, value) == [key |-> key, value |-> value]
DictHas(d, key) == \E i \in 1..Len(d) : d[i].key = key
DictSet(d, key, value) ==
    IF DictHas(d, key)
    THEN [i \in 1..Len(d) |-> IF d[i].key = key THEN DictItem(key, value) ELSE d[i]]
    ELSE Append(d, DictItem(key, value))
DictDel(d, key) == SelectSeq(d, LAMBDA item : item.key # key)
DictValues(d) == [i \in 1..Len(d) |-> d[i].value]

\* the JSON form of an Optional[Union[int, str]] / Optional[Union[float, str]]
\* / Optional[int] field and of an Optional[str] field
JsonNull == [json |-> "null", n |-> 0]
JsonOptional(v) ==
    CASE v.t = "None" -> JsonNull
      [] v.t = "str" -> [json |-> "string", n |-> 0]
      [] v.t = "num" -> [json |-> "number", n |-> v.n]
JsonOptionalStr(v) ==
    IF v = <<>> THEN [json |-> "null", s |-> ""] ELSE [json |-> "string", s |-> v[1]]

\* json.dump(player.dict()): one record of the array in data/players.json
JsonRecord(player) ==
    [id |-> player.id, name |-> player.name, position |-> player.position,
     team |-> player.team,
     rank |-> JsonOptional(player.rank), adp |-> JsonOptional(player.adp),
     projected_points |-> JsonOptional(player.projected_points),
     value_score |-> JsonOptional(player.value_score),
     injury_status |-> JsonOptionalStr(player.injury_status),
     bye_week |-> JsonOptional(player.bye_week),
     age |-> JsonOptional(player.age), experience |-> JsonOptional(player.experience)]

\* the value pydantic makes of a JSON value
FromJson(j) ==
    CASE j.json = "null" -> NoneVal
      [] j.json = "string" -> NA
      [] j.json = "number" -> Num(j.n)
FromJsonStr(j) == IF j.json = "null" THEN <<>> ELSE <<j.s>>

\* Player(**player_data) raises ValidationError: the position is no member
\* of Position, or an Optional[int] field holds a string
RecordRaises(player_data) ==
    \/ player_data.position \notin Positions
    \/ \E j \in {player_data.bye_week, player_data.age, player_data.experience} :
           j.json = "string"

\* Player(**player_data)
PlayerOfRecord(player_data) ==
    FullPlayer(player_data.id, player_data.name, player_data.position, player_data.team,
               FromJson(player_data.rank), FromJson(player_data.adp),
               FromJson(player_data.projected_points), FromJson(player_data.value_score),
               FromJsonStr(player_data.injury_status), FromJson(player_data.bye_week),
               FromJson(player_data.age), FromJson(player_data.experience))

\* data/players.json: missing, an array of records, or text that is not JSON
NoFile == [exists |-> FALSE, json |-> FALSE, data |-> <<>>]
JsonFile(data) == [exists |-> TRUE, json |-> TRUE, data |-> data]
BrokenFile == [exists |-> TRUE, json |-> FALSE, data |-> <<>>]

\* the loop of load_player_data: an exception leaves it with the players
\* loaded so far
RECURSIVE LoadRecords(_, _)
LoadRecords(data, players_cache) ==
    IF data = <<>> THEN players_cache
    ELSE IF RecordRaises(Head(data)) THEN players_cache
    ELSE LET player == PlayerOfRecord(Head(data))
         IN  LoadRecords(Tail(data), DictSet(players_cache, player.id, player))

\* PlayerService(): self.players_cache after load_player_data
load_player_data(file) ==
    IF file.exists /\ file.json THEN LoadRecords(file.data, <<>>) ELSE <<>>

\* what open(path, 'w') and json.dump do to the file: the array is written
\* ("written"), the file cannot be opened ("not opened"), or writing stops
\* after the file was truncated ("cut"); the exception is logged
SaveOutcomes == {"written", "not opened", "cut"}

\* save_player_data: the file it leaves
save_player_data(file, players_cache, io) ==
    IF io = "written"
    THEN JsonFile([i \in 1..Len(players_cache) |-> JsonRecord(players_cache[i].value)])
    ELSE IF io = "cut" THEN BrokenFile
    ELSE file

\* sorted(players, key=lambda p: p.rank or float('inf')) raises TypeError
RankSortRaises(players) ==
    \E i, j \in 1..Len(players) : CompareRaises(RankKey(players[i]), RankKey(players[j]))

RECURSIVE InsertByRank(_, _)
InsertByRank(s, p) ==
    IF s = <<>> THEN <<p>>
    ELSE IF RankLess(RankKey(p), RankKey(Head(s))) THEN <<p>> \o s
    ELSE <<Head(s)>> \o InsertByRank(Tail(s), p)

\* sorted(players, key=lambda p: p.rank or float('inf')): stable
RECURSIVE sorted_by_rank(_)
sorted_by_rank(players) ==
    IF players = <<>> THEN <<>>
    ELSE InsertByRank(sorted_by_rank(SubSeq(players, 1, Len(players) - 1)),
                      players[Len(players)])

\* s[:limit] for a limit of 0 or more
Prefix(s, limit) == SubSeq(s, 1, Min(limit, Len(s)))

get_players_by_position(players_cache, position) ==
    SelectSeq(DictValues(players_cache), LAMBDA player : player.position = position)

\* get_top_players with a position
get_top_players(players_cache, position, limit) ==
    LET players == get_players_by_position(players_cache, position)
    IN  IF RankSortRaises(players) THEN [raised |-> TRUE, value |-> <<>>]
        ELSE [raised |-> FALSE, value |-> Prefix(sorted_by_rank(players), limit)]

\* what a handler leaves: its answer, the catalogue of its PlayerService and
\* the file
Handled(response, players_cache, file) ==
    [response |-> response, players_cache |-> players_cache, file |-> file]

\* the answer to an unknown position
InvalidPosition(position) == HTTPException(400, <<"Invalid position: ", position>>)

\* GET /players; position is <<>> (no parameter) or <<the string>>.  The
\* HTTPException raised for an unknown position is raised inside the outer
\* try, whose `except Exception` catches it.
get_players(file, position, limit, form) ==
    LET players_cache == load_player_data(file)
        filtered == position # <<>> /\ position[1] # ""
        players == IF filtered
                   THEN get_players_by_position(players_cache, upper(position[1]))
                   ELSE DictValues(players_cache)
    IN  IF filtered /\ PositionRaises(upper(position[1]))
        THEN Handled(HTTPException(500, <<"Error retrieving players: ">>
                                            \o StrOf(form, InvalidPosition(position[1]))),
                     players_cache, file)
        ELSE IF RankSortRaises(players)
        THEN Handled(HTTPException(500, <<"Error retrieving players: ", "TypeError">>),
                     players_cache, file)
        ELSE Handled(Response(Prefix(sorted_by_rank(players), limit)), players_cache, file)

\* GET /players/top/{position}: `except HTTPException: raise` passes the 400 on
get_top_players_by_position(file, position, limit) ==
    LET players_cache == load_player_data(file)
        players == get_top_players(players_cache, upper(position), limit)
    IN  IF PositionRaises(upper(position))
        THEN Handled(InvalidPosition(position), players_cache, file)
        ELSE IF players.raised
        THEN Handled(HTTPException(500, <<"Error retrieving top players: ", "TypeError">>),
                     players_cache, file)
        ELSE Handled(Response(players.value), players_cache, file)

\* GET /recommendations/position/{position}: the HTTPException raised for an
\* unknown position is caught by `except Exception`
get_position_recommendations(file, position, limit, form) ==
    LET players_cache == load_player_data(file)
        players == get_players_by_position(players_cache, upper(position))
    IN  IF PositionRaises(upper(position))
        THEN Handled(HTTPException(500, <<"Position recommendation error: ">>
                                            \o StrOf(form, InvalidPosition(position))),
                     players_cache, file)
        ELSE IF RankSortRaises(players)
        THEN Handled(HTTPException(500, <<"Position recommendation error: ", "TypeError">>),
                     players_cache, file)
        ELSE Handled(Response(Prefix(sorted_by_rank(players), limit)), players_cache, file)

\* add_player
add_player(file, players_cache, player, io) ==
    LET added == DictSet(players_cache, player.id, player)
    IN  [players_cache |-> added, file |-> save_player_data(file, added, io)]

\* add_players
RECURSIVE SetAll(_, _)
SetAll(players_cache, players) ==
    IF players = <<>> THEN players_cache
    ELSE SetAll(DictSet(players_cache, Head(players).id, Head(players)), Tail(players))

add_players(file, players_cache, players, io) ==
    LET added == SetAll(players_cache, players)
    IN  [players_cache |-> added, file |-> save_player_data(file, added, io)]

\* POST /players
create_player(file, player, io) ==
    LET service == add_player(file, load_player_data(file), player, io)
    IN  Handled(Response(<<player>>), service.players_cache, service.file)

\* PUT /players/{player_id}
update_player(file, player_id, player, io) ==
    LET players_cache == load_player_data(file)
        service == add_player(file, players_cache, player, io)
    IN  IF player.id # player_id
        THEN Handled(HTTPException(400, <<"Player ID mismatch">>), players_cache, file)
        ELSE Handled(Response(<<player>>), service.players_cache, service.file)

\* DELETE /players/{player_id}
delete_player(file, player_id, io) ==
    LET players_cache == load_player_data(file)
        deleted == DictDel(players_cache, player_id)
    IN  IF ~DictHas(players_cache, player_id)
        THEN Handled(HTTPException(404, <<"Player ", player_id, " not found">>),
                     players_cache, file)
        ELSE Handled(Response(<<>>), deleted, save_player_data(file, deleted, io))

\* POST /players/bulk
create_players_bulk(file, players, io) ==
    LET service == add_players(file, load_player_data(file), players, io)
    IN  Handled(Response(players), service.players_cache, service.file)

\* position_stats of _generate_mock_stats, in points
position_stats(position) ==
    CASE position = "QB" -> [min_proj |-> 200, max_proj |-> 350]
      [] position = "RB" -> [min_proj |-> 150, max_proj |-> 280]
      [] position = "WR" -> [min_proj |-> 120, max_proj |-> 220]
      [] position = "TE" -> [min_proj |-> 80, max_proj |-> 150]
      [] position = "K" -> [min_proj |-> 120, max_proj |-> 160]
      [] position = "DEF" -> [min_proj |-> 100, max_proj |-> 140]

\* what the three random.uniform calls of one _generate_mock_stats draw: the
\* low or the high end of each range
MockDraws == {"low", "high"}

\* _generate_mock_stats, without last_year_points, which Player(**player_dict)
\* ignores; value_score and adp in tenths
_generate_mock_stats(player, draw) ==
    LET stats == position_stats(player.position)
        projected_points == IF draw = "low" THEN stats.min_proj ELSE stats.max_proj
        value_score == IF draw = "low" THEN 50 ELSE 95
        rank == Max(1, 300 - projected_points \div 2)
        adp == Max(1, (rank * (IF draw = "low" THEN 8 ELSE 12)) \div 10)
    IN  [projected_points |-> Num(projected_points), value_score |-> Num(value_score),
         rank |-> Num(rank), adp |-> Num(10 * adp)]

\* Player(**player_dict) after player_dict.update(mock_data)
MockPlayer(player, mock_data) ==
    FullPlayer(player.id, player.name, player.position, player.team,
               mock_data.rank, mock_data.adp, mock_data.projected_points,
               mock_data.value_score, player.injury_status, player.bye_week,
               player.age, player.experience)

\* the loop of populate_mock_data from the i-th item on.  `not
\* player.projected_points or not player.last_year_points`: for a player with
\* projected_points the second operand is evaluated, and Player has no
\* attribute last_year_points.
RECURSIVE MockLoop(_, _, _)
MockLoop(players_cache, i, draw) ==
    IF i > Len(players_cache) THEN [raised |-> FALSE, players_cache |-> players_cache]
    ELSE LET player == players_cache[i].value
         IN  IF Truthy(player.projected_points)
             THEN [raised |-> TRUE, players_cache |-> players_cache]
             ELSE MockLoop(DictSet(players_cache, player.id,
                                   MockPlayer(player, _generate_mock_stats(player, draw))),
                           i + 1, draw)

\* POST /players/populate-mock: the except branch of populate_mock_data
\* returns 0 without saving
populate_mock_data(file, draw, io) ==
    LET players_cache == load_player_data(file)
        loop == MockLoop(players_cache, 1, draw)
    IN  IF loop.raised
        THEN Handled(Response(<<0>>), loop.players_cache, file)
        ELSE Handled(Response(<<Len(players_cache)>>),
                     loop.players_cache,
                     save_player_data(file, loop.players_cache, io))

\* the add_player calls of one get_enriched_players, in order
RECURSIVE AddEach(_, _, _)
AddEach(service, players, io) ==
    IF players = <<>> THEN service
    ELSE AddEach(add_player(service.file, service.players_cache, Head(players), io),
                 Tail(players), io)

\* POST /players/enrich
enrich_players(file, players, fresh, own, io) ==
    LET enriched == get_enriched_players(players, fresh, own)
        service == AddEach([players_cache |-> load_player_data(file), file |-> file],
                           enriched.added, io)
    IN  Handled(Response(enriched.players), service.players_cache, service.file)

\* the players the catalogue is driven with
cMahomes == Local("p1", nPatrickMahomes, "QB", "KC", NoneVal)
cMahomesPoints == Local("p1", nPatrickMahomes, "QB", "KC", Num(120))
cZed == Local("p4", nZed, "WR", "FA", Num(0))

CataloguePlayers == {cMahomes, cMahomesPoints, cZed}

\* the position strings the handlers are called with
PositionStrings == {"qb", "WR", "flex"}

\* the last handler that ran: what it was called with, what it answered,
\* what save_player_data did, the catalogue of its PlayerService when it
\* returned and the file as it found it
PlayersLast(op, position, player_id, players, io, handled, before) ==
    [op |-> op, position |-> position, player_id |-> player_id, players |-> players,
     io |-> io, response |-> handled.response, players_cache |-> handled.players_cache,
     before |-> before]

IdlePl ==
    /\ pl_file = NoFile
    /\ pl_last = PlayersLast("none", <<>>, "", <<>>, "not attempted",
                             Handled(Response(<<>>), <<>>, NoFile), NoFile)

----------------------------------------------------------------------------
(* get_recommendations, chat, clear_cache and clear_chat_cache of           *)
(* app/services/rag_service.py statement by statement, for callers that    *)
(* share the one RAGService.  The handlers of the API layer are coroutines *)
(* without an await and run one after the other ("run to completion"); a   *)
(* host that calls the service from several threads interleaves the        *)
(* statements ("interleaved").                                             *)

Threads == {1, 2}

Host(mode, has_llm) == [mode |-> mode, llm |-> has_llm]

\* the frame of one call: where it stands, its arguments and its locals
Frame(pc, op, request, cache_key, cache_entry, response, computed, error) ==
    [pc |-> pc, op |-> op, request |-> request, cache_key |-> cache_key,
     cache_entry |-> cache_entry, response |-> response, computed |-> computed,
     error |-> error]

NoEntry == [timestamp |-> 0, response |-> <<>>]
NoFrame == Frame("idle", "none", <<>>, <<>>, NoEntry, <<>>, FALSE, "")

\* a call is between its first statement and its return
MidCall(frame) == frame.pc \notin {"idle", "returned", "raised"}

\* self.recommendation_cache, self.chat_cache and self.player_cache
SharedCaches(rc, cc, pc) ==
    [recommendation_cache |-> rc, chat_cache |-> cc, player_cache |-> pc]

\* the cache a call works on
CacheOf(caches, op) ==
    IF op = "chat" THEN caches.chat_cache ELSE caches.recommendation_cache

WithCache(caches, op, cache) ==
    IF op = "chat" THEN [caches EXCEPT !.chat_cache = cache]
    ELSE [caches EXCEPT !.recommendation_cache = cache]

\* the cache key of a call (rag_service.py lines 186 and 257)
KeyOf(op, request) ==
    IF op = "chat" THEN <<_get_chat_cache_key(request)>>
    ELSE <<_get_cache_key(request.available_players, request.user_team,
                          request.draft_context)>>

\* lines 202-221 and 273-293: the response a call computes, or the exception
\* that leaves _rule_based_recommendations
Computed(op, has_llm, request, backend) ==
    IF op = "chat"
    THEN Return(<<IF has_llm /\ backend.kind # "raise"
                  THEN ChatResponse(backend.answer,
                                    IF backend.source_documents THEN 9 ELSE 7)
                  ELSE _rule_based_chat(request)>>)
    ELSE LET r == IF has_llm /\ backend.kind # "raise"
                  THEN _parse_recommendation_response(backend, request.available_players)
                  ELSE _rule_based_recommendations(request.available_players)
         IN  [raised |-> r.raised, value |-> <<r.value>>]

ThreadRecRequests ==
    { RecommendationRequest(<<pA, pB>>, TeamRoster(<<>>), DraftContext(1, 1)) }

ThreadChatRequests ==
    { ChatRequest(<<"What's my draft", " ", "strategy", "?">>, NoContext) }

ThreadBackendResults ==
    { BackendResult("raise", "", <<>>), BackendResult("json", "b", <<"A", "Zed">>) }

ThreadChatBackendResults ==
    { ChatBackendResult("raise", "", FALSE), ChatBackendResult("answer", "answer", TRUE) }

IdleTh ==
    /\ th_caches = SharedCaches(<<>>, <<>>, <<>>)
    /\ th = [t \in Threads |-> NoFrame]
    /\ th_now = 0
    /\ th_host = Host("run to completion", FALSE)
    /\ th_computed = SharedCaches(<<>>, <<>>, <<>>)

----------------------------------------------------------------------------
(* The service: one action per handler of the API layer.  Every handler    *)
(* first obtains RAGService(), which constructs the instance if there is   *)
(* none.                                                                   *)

\* mutation: __init__ never finds the flag set
_initialized_never_set == FALSE

\* self._initialized as __init__ reads it on the object __new__ returned: the
\* attribute __init__ set on the existing instance, the class attribute False
\* on a new one
_initialized == instance

\* mutation: the credential is looked up again on every access
LlmChoices_every_access == IF credential THEN BOOLEAN ELSE {FALSE}

\* _detect_llm and the construction of the Groq client, which may fail
LlmChoices ==
    IF _initialized THEN {llm} ELSE IF credential THEN BOOLEAN ELSE {FALSE}

\* RAGService(): the caches of the instance the handler works on
Service ==
    IF _initialized THEN Caches(recommendation_cache, chat_cache, player_cache)
    ELSE Caches(<<>>, <<>>, <<>>)

\* RAGService(): the body of __init__ runs unless the flag is set
InitRuns == IF _initialized THEN init_runs ELSE Min(init_runs + 1, MaxInitRuns)

NoRequest == [none |-> TRUE]
NoKey == ""
NoResult == Return(NoResponse)

Last(op, request, backend_result, r, stats, before) ==
    [op |-> op, request |-> request, backend_result |-> backend_result,
     key |-> r.key, result |-> r.result, hit |-> r.hit,
     backend |-> r.backend, fallback |-> r.fallback,
     stats |-> stats, before |-> before]

NoCall == [key |-> NoKey, result |-> NoResult, hit |-> FALSE,
           backend |-> FALSE, fallback |-> FALSE]

NoStats == Stats(0, 0, 0)
NotCalled == [kind |-> "not called"]

Idle(op) == Last(op, NoRequest, NotCalled, NoCall, NoStats, NoStats)

SetCaches(caches) ==
    /\ recommendation_cache' = caches.recommendation_cache
    /\ chat_cache' = caches.chat_cache
    /\ player_cache' = caches.player_cache

Stored(timestamp, response, request) ==
    [timestamp |-> timestamp, response |-> response, request |-> request]

Tick ==
    /\ \E d \in TickSteps : now + d <= MaxNow /\ now' = now + d
    /\ last' = Idle("tick")
    /\ UNCHANGED <<credential, instance, llm, init_runs, recommendation_cache,
                   chat_cache, player_cache, rec_stored, chat_stored, probe_vars>>

\* POST /recommendations, from the call of rag_service.get_recommendations on
\* (available_players is the list the enrichment returned)
GetRecommendationsOf(requests) ==
    \E request \in requests, l \in LlmChoices :
    \E backend \in (IF l THEN BackendResults ELSE {NotCalled}) :
        LET r == get_recommendations(l, Service.recommendation_cache, request, backend)
        IN  /\ instance' = TRUE
            /\ llm' = l
            /\ init_runs' = InitRuns
            /\ SetCaches(Caches(r.cache, Service.chat_cache, Service.player_cache))
            /\ last' = Last("get_recommendations", request,
                            IF r.backend THEN backend ELSE NotCalled, r,
                            NoStats, NoStats)
            /\ rec_stored' =
                   IF r.hit \/ r.result.raised THEN rec_stored
                   ELSE Put(rec_stored, r.key, Stored(now, r.result.value, request))
            /\ UNCHANGED <<credential, now, chat_stored, probe_vars>>

GetRecommendations == GetRecommendationsOf(RecRequests)

\* POST /chat
ChatOf(requests) ==
    \E request \in requests, l \in LlmChoices :
    \E backend \in (IF l THEN ChatBackendResults ELSE {NotCalled}) :
        LET r == chat(l, Service.chat_cache, request, backend)
        IN  /\ instance' = TRUE
            /\ llm' = l
            /\ init_runs' = InitRuns
            /\ SetCaches(Caches(Service.recommendation_cache, r.cache, Service.player_cache))
            /\ last' = Last("chat", request,
                            IF r.backend THEN backend ELSE NotCalled, r,
                            NoStats, NoStats)
            /\ chat_stored' =
                   IF r.hit THEN chat_stored
                   ELSE Put(chat_stored, r.key, Stored(now, r.result.value, request))
            /\ UNCHANGED <<credential, now, rec_stored, probe_vars>>

Chat == ChatOf(ChatRequests)

\* GET /recommendations/cache/clear
ClearCache ==
    \E l \in LlmChoices :
        /\ instance' = TRUE
        /\ llm' = l
        /\ init_runs' = InitRuns
        /\ SetCaches(clear_cache(Service))
        /\ last' = Last("clear_cache", NoRequest, NotCalled, NoCall,
                        NoStats, get_cache_stats(Service))
        /\ rec_stored' = <<>>
        /\ chat_stored' = <<>>
        /\ UNCHANGED <<credential, now, probe_vars>>

\* POST /chat/clear
ClearChatCache ==
    \E l \in LlmChoices :
        /\ instance' = TRUE
        /\ llm' = l
        /\ init_runs' = InitRuns
        /\ SetCaches(clear_chat_cache(Service))
        /\ last' = Last("clear_chat_cache", NoRequest, NotCalled, NoCall,
                        NoStats, get_cache_stats(Service))
        /\ chat_stored' = <<>>
        /\ UNCHANGED <<credential, now, rec_stored, probe_vars>>

\* GET /recommendations/cache/status
GetCacheStats ==
    \E l \in LlmChoices :
        /\ instance' = TRUE
        /\ llm' = l
        /\ init_runs' = InitRuns
        /\ SetCaches(Service)
        /\ last' = Last("get_cache_stats", NoRequest, NotCalled, NoCall,
                        get_cache_stats(Service), NoStats)
        /\ UNCHANGED <<credential, now, rec_stored, chat_stored, probe_vars>>

\* GET /recommendations/cache/reset: the instance is dropped with its caches
ResetSingleton ==
    /\ instance' = FALSE
    /\ llm' = FALSE
    /\ init_runs' = 0
    /\ SetCaches(Caches(<<>>, <<>>, <<>>))
    /\ last' = Idle("reset_singleton")
    /\ rec_stored' = <<>>
    /\ chat_stored' = <<>>
    /\ UNCHANGED <<credential, now, probe_vars>>

InitService ==
    /\ credential \in BOOLEAN
    /\ instance = TRUE
    /\ llm \in (IF credential THEN BOOLEAN ELSE {FALSE})
    /\ init_runs = 1
    /\ recommendation_cache = <<>>
    /\ chat_cache = <<>>
    /\ player_cache = <<>>
    /\ now = 0
    /\ last = Idle("init")
    /\ rec_stored = <<>>
    /\ chat_stored = <<>>

\* the applications of single operations are not in use
IdleRb == rb_pc = "idle" /\ rb_in = <<>> /\ rb_out = NoResult
IdleCh == ch_pc = "idle" /\ ch_in = <<>> /\ ch_out = ChatResponse("", 0)
IdleEn ==
    /\ en_pc = "idle"
    /\ en_in = EnrichInput(<<>>, ApiRaises, <<>>, NoSleeperCache)
    /\ en_out = EnrichOutput(<<>>, <<>>)

InitProbes == IdleRb /\ IdleCh /\ IdleEn /\ IdleMs /\ IdleSc /\ IdlePl /\ IdleTh

Init == InitService /\ InitProbes

\* the recommendation side of the service
NextRec ==
    \/ Tick
    \/ GetRecommendations
    \/ ClearCache
    \/ GetCacheStats
    \/ ResetSingleton

SpecRec == Init /\ [][NextRec]_vars

\* the chat side of the service
NextChat ==
    \/ Tick
    \/ Chat
    \/ ClearCache
    \/ ClearChatCache
    \/ GetCacheStats
    \/ ResetSingleton

SpecChat == Init /\ [][NextChat]_vars

\* the whole service
GetRecommendationsFew == GetRecommendationsOf(FewRecRequests)
ChatFew == ChatOf(FewChatRequests)

Next ==
    \/ Tick
    \/ GetRecommendationsFew
    \/ ChatFew
    \/ ClearCache
    \/ ClearChatCache
    \/ GetCacheStats
    \/ ResetSingleton

Spec == Init /\ [][Next]_vars

----------------------------------------------------------------------------
(* _rule_based_recommendations on its own, over every list of up to        *)
(* MaxPlayers players whose rank and projected_points are drawn from       *)
(* RuleStats, and the two lists of the documented scenarios.               *)

PlayerNames == <<"A", "B", "C", "D", "E", "F", "G">>

\* <<rank, projected_points>>
RuleStats ==
    { <<NoneVal, NoneVal>>, <<NA, Num(100)>>, <<Num(1), NA>>,
      <<Num(0), Num(100)>>, <<Num(1), Num(100)>>, <<Num(1), Num(150)>>,
      <<Num(2), Num(150)>>, <<Num(3), NoneVal>> }

ScenarioAB == <<Player("1", "A", Num(5), Num(100)), Player("2", "B", Num(2), Num(150))>>

ScenarioRanks ==
    <<Player("1", "A", Num(3), Num(100)), Player("2", "B", Num(1), Num(100)),
      Player("3", "C", NoneVal, Num(100)), Player("4", "D", Num(2), Num(100))>>

RuleLists ==
    UNION { { [i \in 1..n |-> Player(ToString(i), PlayerNames[i], f[i][1], f[i][2])] :
                f \in [1..n -> RuleStats] } : n \in 0..MaxPlayers }
    \cup {ScenarioAB, ScenarioRanks}

InitIdleService ==
    /\ credential = FALSE
    /\ instance = TRUE
    /\ llm = FALSE
    /\ init_runs = 1
    /\ recommendation_cache = <<>>
    /\ chat_cache = <<>>
    /\ player_cache = <<>>
    /\ now = 0
    /\ last = Idle("init")
    /\ rec_stored = <<>>
    /\ chat_stored = <<>>

InitRule ==
    /\ InitIdleService
    /\ rb_pc = "call" /\ rb_in \in RuleLists /\ rb_out = NoResult
    /\ IdleCh /\ IdleEn /\ IdleMs /\ IdleSc /\ IdlePl /\ IdleTh

RuleBasedRecommendations ==
    /\ rb_pc = "call"
    /\ rb_out' = _rule_based_recommendations(rb_in)
    /\ rb_pc' = "done"
    /\ UNCHANGED <<svc_vars, rb_in, ch_vars, en_vars, ms_vars, sc_vars, pl_vars, th_vars>>

SpecRule == InitRule /\ [][RuleBasedRecommendations]_vars

----------------------------------------------------------------------------
(* _rule_based_chat on its own, over every message of up to MaxMessage     *)
(* pieces and the message of the documented scenario.                      *)

ChatPieces == {" ", "Recommend", "who", "should", "Strategy", "position", "hi"}

ScenarioMessage == <<"What's my draft", " ", "strategy", "?">>

RuleMessages ==
    UNION { [1..n -> ChatPieces] : n \in 0..MaxMessage } \cup {ScenarioMessage}

InitRuleChat ==
    /\ InitIdleService
    /\ IdleRb /\ IdleEn /\ IdleMs /\ IdleSc /\ IdlePl /\ IdleTh
    /\ ch_pc = "call" /\ ch_in \in RuleMessages /\ ch_out = ChatResponse("", 0)

RuleBasedChat ==
    /\ ch_pc = "call"
    /\ ch_out' = _rule_based_chat(ChatRequest(ch_in, NoContext))
    /\ ch_pc' = "done"
    /\ UNCHANGED <<svc_vars, rb_vars, ch_in, en_vars, ms_vars, sc_vars, pl_vars, th_vars>>

SpecRuleChat == InitRuleChat /\ [][RuleBasedChat]_vars

----------------------------------------------------------------------------
(* The two enrichment operations on their own, over every list of up to    *)
(* MaxEnrich local players and the states the Sleeper cache can be in.     *)

\* POST /recommendations, up to the call of rag_service.get_recommendations
InitEnrich ==
    /\ InitIdleService /\ IdleRb /\ IdleCh /\ IdleMs /\ IdleSc /\ IdlePl /\ IdleTh
    /\ en_pc = "call"
    /\ \E players \in LocalLists, api_service \in ApiServices :
           en_in = EnrichInput(players, api_service, <<>>, NoSleeperCache)
    /\ en_out = EnrichOutput(<<>>, <<>>)

EnrichRecommendationPlayers ==
    /\ en_pc = "call"
    /\ en_out' = EnrichOutput(
                     enrich_recommendation_players(en_in.players, en_in.api_service),
                     <<>>)
    /\ en_pc' = "done"
    /\ UNCHANGED <<svc_vars, rb_vars, ch_vars, en_in, ms_vars, sc_vars, pl_vars, th_vars>>

SpecEnrich == InitEnrich /\ [][EnrichRecommendationPlayers]_vars

\* POST /players/enrich
InitEnrichApi ==
    /\ InitIdleService /\ IdleRb /\ IdleCh /\ IdleMs /\ IdleSc /\ IdlePl /\ IdleTh
    /\ en_pc = "call"
    /\ \E players \in LocalLists, own \in FewSleeperCaches :
       \E fresh \in [1..Len(players) -> FewSleeperCaches] :
           en_in = EnrichInput(players, ApiService(own), fresh, own)
    /\ en_out = EnrichOutput(<<>>, <<>>)

GetEnrichedPlayers ==
    /\ en_pc = "call"
    /\ en_out' = get_enriched_players(en_in.players, en_in.fresh, en_in.own)
    /\ en_pc' = "done"
    /\ UNCHANGED <<svc_vars, rb_vars, ch_vars, en_in, ms_vars, sc_vars, pl_vars, th_vars>>

SpecEnrichApi == InitEnrichApi /\ [][GetEnrichedPlayers]_vars

----------------------------------------------------------------------------
(* enrich_recommendation_players on lists longer than NameLimit: a player  *)
(* that Sleeper knows by its exact name, behind up to MaxBefore players    *)
(* that Sleeper does not know.                                             *)

\* players of no Sleeper record: one with a name, one without
Fillers == {Local("p4", nZed, "WR", "FA", Num(0)), Local("p5", <<>>, "K", "FA", Num(50))}

\* players whose name is the name of a Sleeper record of the catalogue
Targets ==
    { Local("p1", nPatrickMahomes, "QB", "KC", projected_points) :
          projected_points \in {Num(120), NoneVal} }
    \cup {Local("p3", nJoshAllen, "QB", "BUF", NoneVal)}

LongLists ==
    { [i \in 1..(n + 1) |-> IF i <= n THEN filler ELSE target] :
          n \in 0..MaxBefore, filler \in Fillers, target \in Targets }

InitEnrichLong ==
    /\ InitIdleService /\ IdleRb /\ IdleCh /\ IdleMs /\ IdleSc /\ IdlePl /\ IdleTh
    /\ en_pc = "call"
    /\ \E players \in LongLists, api_service \in ApiServices :
           en_in = EnrichInput(players, api_service, <<>>, NoSleeperCache)
    /\ en_out = EnrichOutput(<<>>, <<>>)

SpecEnrichLong == InitEnrichLong /\ [][EnrichRecommendationPlayers]_vars

----------------------------------------------------------------------------
(* _map_sleeper_player on its own, over the search ranks up to MaxRank and  *)
(* every value of hash(player_id) % 20.                                    *)

SearchRanks ==
    {NoneVal, Num(0), Num(0 - 1), Num(0 - 30), Num(NoSearchRank)}
        \cup {Num(k) : k \in 1..MaxRank}

MapInputs ==
    { Item("4046", id_hash,
           PlayerData(<<"Pat", "rick">>, <<"Mahomes">>, << <<"pat", "rick", "mahomes">> >>,
                      position, <<"KC">>, search_rank, Num(28), Num(7), <<>>)) :
          id_hash \in 0..19, search_rank \in SearchRanks, position \in {"QB", "OL"} }

InitMap ==
    /\ InitIdleService /\ IdleRb /\ IdleCh /\ IdleEn /\ IdleSc /\ IdlePl /\ IdleTh
    /\ ms_pc = "call" /\ ms_in \in MapInputs /\ ms_out = <<>>

MapSleeperPlayer ==
    /\ ms_pc = "call"
    /\ ms_out' = _map_sleeper_player(ms_in.player_id, ms_in.id_hash, ms_in.player_data)
    /\ ms_pc' = "done"
    /\ UNCHANGED <<svc_vars, rb_vars, ch_vars, en_vars, sc_vars, pl_vars, th_vars, ms_in>>

SpecMap == InitMap /\ [][MapSleeperPlayer]_vars

----------------------------------------------------------------------------
(* The constructions of APIService over time, from the states the two      *)
(* cache files can be found in.                                            *)

InitSleeperCache ==
    /\ InitIdleService /\ IdleRb /\ IdleCh /\ IdleEn /\ IdleMs /\ IdlePl /\ IdleTh
    /\ sc_disk \in {Disk(<<>>, <<>>), Disk(<<OldData>>, <<>>), Disk(<<OldData>>, <<0>>)}
    /\ sc_now = 0
    /\ sc_api = NoApi

\* APIService()
APIServiceInit ==
    \E fetch \in (IF Fetches(sc_disk, sc_now) THEN FetchOutcomes ELSE {NoFetch}) :
        LET api == _load_sleeper_cache(sc_disk, sc_now, fetch)
        IN  /\ sc_api' = [op |-> "init", api |-> api, before |-> sc_disk, at |-> sc_now]
            /\ sc_disk' = api.disk
            /\ UNCHANGED <<svc_vars, rb_vars, ch_vars, en_vars, ms_vars, pl_vars, th_vars, sc_now>>

SleeperTick ==
    /\ \E d \in SleeperTickSteps : sc_now + d <= MaxSleeperNow /\ sc_now' = sc_now + d
    /\ sc_api' = [sc_api EXCEPT !.op = "tick"]
    /\ UNCHANGED <<svc_vars, rb_vars, ch_vars, en_vars, ms_vars, pl_vars, th_vars, sc_disk>>

NextSleeperCache == APIServiceInit \/ SleeperTick

SpecSleeperCache == InitSleeperCache /\ [][NextSleeperCache]_vars

----------------------------------------------------------------------------
(* The handlers of the player catalogue, one request after the other, from *)
(* the states data/players.json can be found in.                           *)

InitPlayers ==
    /\ InitIdleService /\ IdleRb /\ IdleCh /\ IdleEn /\ IdleMs /\ IdleSc /\ IdleTh
    /\ pl_file \in {NoFile, BrokenFile, JsonFile(<<>>),
                    JsonFile(<<JsonRecord(cZed), JsonRecord(cMahomesPoints)>>)}
    /\ pl_last = PlayersLast("none", <<>>, "", <<>>, "not attempted",
                             Handled(Response(<<>>), <<>>, NoFile), NoFile)

PlayersFrame == UNCHANGED <<svc_vars, rb_vars, ch_vars, en_vars, ms_vars, sc_vars, th_vars>>

\* the catalogue is driven up to MaxCatalogue players
Fits(handled) == Len(handled.players_cache) <= MaxCatalogue

GetPlayers ==
    \E position \in {<<>>} \cup {<<s>> : s \in PositionStrings \cup {""}},
       limit \in {1, 50}, form \in StrForms :
        LET handled == get_players(pl_file, position, limit, form)
        IN  /\ pl_last' = PlayersLast("get_players", position, "", <<>>,
                                      "not attempted", handled, pl_file)
            /\ pl_file' = handled.file
            /\ PlayersFrame

GetTopPlayersByPosition ==
    \E position \in PositionStrings :
        LET handled == get_top_players_by_position(pl_file, position, 20)
        IN  /\ pl_last' = PlayersLast("get_top_players_by_position", <<position>>, "",
                                      <<>>, "not attempted", handled, pl_file)
            /\ pl_file' = handled.file
            /\ PlayersFrame

GetPositionRecommendations ==
    \E position \in PositionStrings, form \in StrForms :
        LET handled == get_position_recommendations(pl_file, position, 10, form)
        IN  /\ pl_last' = PlayersLast("get_position_recommendations", <<position>>, "",
                                      <<>>, "not attempted", handled, pl_file)
            /\ pl_file' = handled.file
            /\ PlayersFrame

CreatePlayer ==
    \E player \in CataloguePlayers, io \in SaveOutcomes :
        LET handled == create_player(pl_file, player, io)
        IN  /\ Fits(handled)
            /\ pl_last' = PlayersLast("create_player", <<>>, player.id, <<player>>,
                                      io, handled, pl_file)
            /\ pl_file' = handled.file
            /\ PlayersFrame

UpdatePlayer ==
    \E player \in CataloguePlayers, player_id \in {"p1", "p4"}, io \in SaveOutcomes :
        LET handled == update_player(pl_file, player_id, player, io)
        IN  /\ Fits(handled)
            /\ pl_last' = PlayersLast("update_player", <<>>, player_id, <<player>>,
                                      IF player.id = player_id THEN io
                                      ELSE "not attempted",
                                      handled, pl_file)
            /\ pl_file' = handled.file
            /\ PlayersFrame

DeletePlayer ==
    \E player_id \in {"p1", "p4"}, io \in SaveOutcomes :
        LET handled == delete_player(pl_file, player_id, io)
        IN  /\ pl_last' = PlayersLast("delete_player", <<>>, player_id, <<>>,
                                      IF DictHas(load_player_data(pl_file), player_id)
                                      THEN io ELSE "not attempted",
                                      handled, pl_file)
            /\ pl_file' = handled.file
            /\ PlayersFrame

CreatePlayersBulk ==
    \E players \in {<<>>, <<cZed, cMahomes>>, <<cMahomes, cMahomesPoints>>},
       io \in SaveOutcomes :
        LET handled == create_players_bulk(pl_file, players, io)
        IN  /\ Fits(handled)
            /\ pl_last' = PlayersLast("create_players_bulk", <<>>, "", players,
                                      io, handled, pl_file)
            /\ pl_file' = handled.file
            /\ PlayersFrame

PopulateMockData ==
    \E draw \in MockDraws, io \in SaveOutcomes :
        LET handled == populate_mock_data(pl_file, draw, io)
        IN  /\ pl_last' = PlayersLast("populate_mock_data", <<>>, "", <<>>,
                                      IF MockLoop(load_player_data(pl_file), 1, draw).raised
                                      THEN "not attempted" ELSE io,
                                      handled, pl_file)
            /\ pl_file' = handled.file
            /\ PlayersFrame

\* POST /players/enrich with one player; `players` of the record are the
\* players handed to add_player
EnrichPlayers ==
    \E player \in {cMahomes, cZed}, fresh \in FewSleeperCaches, own \in FewSleeperCaches,
       io \in SaveOutcomes :
        LET added == get_enriched_players(<<player>>, <<fresh>>, own).added
            handled == enrich_players(pl_file, <<player>>, <<fresh>>, own, io)
        IN  /\ Fits(handled)
            /\ pl_last' = PlayersLast("enrich_players", <<>>, "", added,
                                      IF added = <<>> THEN "not attempted" ELSE io,
                                      handled, pl_file)
            /\ pl_file' = handled.file
            /\ PlayersFrame

NextPlayers ==
    \/ GetPlayers
    \/ GetTopPlayersByPosition
    \/ GetPositionRecommendations
    \/ CreatePlayer
    \/ UpdatePlayer
    \/ DeletePlayer
    \/ CreatePlayersBulk
    \/ PopulateMockData
    \/ EnrichPlayers

SpecPlayers == InitPlayers /\ [][NextPlayers]_vars

----------------------------------------------------------------------------
(* The callers of the shared RAGService, statement by statement.           *)

InitThreads ==
    /\ InitIdleService /\ IdleRb /\ IdleCh /\ IdleEn /\ IdleMs /\ IdleSc /\ IdlePl
    /\ th_caches = SharedCaches(<<>>, <<>>, <<>>)
    /\ th = [t \in Threads |-> NoFrame]
    /\ th_now = 0
    /\ th_host \in {Host(mode, has_llm) :
                       mode \in {"run to completion", "interleaved"},
                       has_llm \in BOOLEAN}
    /\ th_computed = SharedCaches(<<>>, <<>>, <<>>)

\* mutation: the handlers run on a pool of threads
MayRun_on_threads(t) == TRUE

\* thread t may run its next statement: a coroutine without an await is not
\* interrupted by another
MayRun(t) ==
    \/ th_host.mode = "interleaved"
    \/ \A u \in Threads \ {t} : ~MidCall(th[u])

ThreadFrame == UNCHANGED <<svc_vars, rb_vars, ch_vars, en_vars, ms_vars, sc_vars,
                           pl_vars, th_host>>

\* the call, up to the cache key (lines 186, 257)
Call(t) ==
    /\ ~MidCall(th[t])
    /\ MayRun(t)
    /\ \E op \in {"get_recommendations", "chat"} :
       \E request \in (IF op = "chat" THEN ThreadChatRequests ELSE ThreadRecRequests) :
           th' = [th EXCEPT ![t] = Frame("in", op, <<request>>, KeyOf(op, request),
                                         NoEntry, <<>>, FALSE, "")]
    /\ UNCHANGED <<th_caches, th_now, th_computed>>
    /\ ThreadFrame

\* `if cache_key in self.recommendation_cache:` (lines 190, 261)
Member(t) ==
    /\ th[t].pc = "in"
    /\ MayRun(t)
    /\ th' = [th EXCEPT ![t].pc =
                 IF th[t].cache_key[1] \in DOMAIN CacheOf(th_caches, th[t].op)
                 THEN "read" ELSE "compute"]
    /\ UNCHANGED <<th_caches, th_now, th_computed>>
    /\ ThreadFrame

\* `cache_entry = self.recommendation_cache[cache_key]` (lines 191, 262):
\* KeyError if the key is not there
ReadEntry(t) ==
    /\ th[t].pc = "read"
    /\ MayRun(t)
    /\ LET cache == CacheOf(th_caches, th[t].op)
           cache_key == th[t].cache_key[1]
       IN  th' = IF cache_key \in DOMAIN cache
                 THEN [th EXCEPT ![t].pc = "valid", ![t].cache_entry = cache[cache_key]]
                 ELSE [th EXCEPT ![t].pc = "raised", ![t].error = "KeyError"]
    /\ UNCHANGED <<th_caches, th_now, th_computed>>
    /\ ThreadFrame

\* `if self._is_cache_valid(cache_entry): return cache_entry[1]` (lines
\* 192-194, 263-265)
CheckValid(t) ==
    /\ th[t].pc = "valid"
    /\ MayRun(t)
    /\ th' = IF th_now - th[t].cache_entry.timestamp < cache_duration
             THEN [th EXCEPT ![t].pc = "returned",
                             ![t].response = <<th[t].cache_entry.response>>]
             ELSE [th EXCEPT ![t].pc = "del"]
    /\ UNCHANGED <<th_caches, th_now, th_computed>>
    /\ ThreadFrame

\* `del self.recommendation_cache[cache_key]` (lines 197, 268): KeyError if
\* the key is not there
DelEntry(t) ==
    /\ th[t].pc = "del"
    /\ MayRun(t)
    /\ LET cache == CacheOf(th_caches, th[t].op)
           cache_key == th[t].cache_key[1]
       IN  IF cache_key \in DOMAIN cache
           THEN /\ th' = [th EXCEPT ![t].pc = "compute"]
                /\ th_caches' = WithCache(th_caches, th[t].op, Remove(cache, cache_key))
           ELSE /\ th' = [th EXCEPT ![t].pc = "raised", ![t].error = "KeyError"]
                /\ UNCHANGED th_caches
    /\ UNCHANGED <<th_now, th_computed>>
    /\ ThreadFrame

\* the computation of the response (lines 202-221, 273-293)
Compute(t) ==
    /\ th[t].pc = "compute"
    /\ MayRun(t)
    /\ \E backend \in (IF ~th_host.llm THEN {NotCalled}
                       ELSE IF th[t].op = "chat" THEN ThreadChatBackendResults
                       ELSE ThreadBackendResults) :
           LET r == Computed(th[t].op, th_host.llm, th[t].request[1], backend)
           IN  th' = IF r.raised
                     THEN [th EXCEPT ![t].pc = "raised", ![t].error = "TypeError"]
                     ELSE [th EXCEPT ![t].pc = "store", ![t].response = r.value,
                                     ![t].computed = TRUE]
    /\ th_computed' = WithCache(th_computed, th[t].op,
                                Put(Remove(CacheOf(th_computed, th[t].op),
                                           th[t].cache_key[1]),
                                    th[t].cache_key[1], th_now))
    /\ UNCHANGED <<th_caches, th_now>>
    /\ ThreadFrame

\* `self.recommendation_cache[cache_key] = (datetime.now(), response)` and
\* the return (lines 224-228, 296-300)
Store(t) ==
    /\ th[t].pc = "store"
    /\ MayRun(t)
    /\ th_caches' = WithCache(th_caches, th[t].op,
                              Put(Remove(CacheOf(th_caches, th[t].op), th[t].cache_key[1]),
                                  th[t].cache_key[1],
                                  CacheEntry(th_now, th[t].response[1])))
    /\ th' = [th EXCEPT ![t].pc = "returned"]
    /\ UNCHANGED <<th_now, th_computed>>
    /\ ThreadFrame

\* clear_cache, up to its first statement, and clear_chat_cache
CallClear(t) ==
    /\ ~MidCall(th[t])
    /\ MayRun(t)
    /\ \E op \in {"clear_cache", "clear_chat_cache"} :
           th' = [th EXCEPT ![t] = Frame(IF op = "clear_cache" THEN "clear recommendations"
                                         ELSE "clear chat",
                                         op, <<>>, <<>>, NoEntry, <<>>, FALSE, "")]
    /\ UNCHANGED <<th_caches, th_now, th_computed>>
    /\ ThreadFrame

\* `self.recommendation_cache.clear()` (line 304)
ClearRecommendations(t) ==
    /\ th[t].pc = "clear recommendations"
    /\ MayRun(t)
    /\ th_caches' = [th_caches EXCEPT !.recommendation_cache = <<>>]
    /\ th' = [th EXCEPT ![t].pc = "clear chat"]
    /\ th_computed' = [th_computed EXCEPT !.recommendation_cache = <<>>]
    /\ UNCHANGED th_now
    /\ ThreadFrame

\* `self.chat_cache.clear()` (lines 305, 311)
ClearChat(t) ==
    /\ th[t].pc = "clear chat"
    /\ MayRun(t)
    /\ th_caches' = [th_caches EXCEPT !.chat_cache = <<>>]
    /\ th' = [th EXCEPT ![t].pc = IF th[t].op = "clear_cache" THEN "clear players"
                                  ELSE "returned"]
    /\ th_computed' = [th_computed EXCEPT !.chat_cache = <<>>]
    /\ UNCHANGED th_now
    /\ ThreadFrame

\* `self.player_cache.clear()` (line 306)
ClearPlayers(t) ==
    /\ th[t].pc = "clear players"
    /\ MayRun(t)
    /\ th_caches' = [th_caches EXCEPT !.player_cache = <<>>]
    /\ th' = [th EXCEPT ![t].pc = "returned"]
    /\ UNCHANGED <<th_now, th_computed>>
    /\ ThreadFrame

ThreadTick ==
    /\ \E d \in TickSteps : th_now + d <= MaxThreadNow /\ th_now' = th_now + d
    /\ UNCHANGED <<th_caches, th, th_computed>>
    /\ ThreadFrame

NextThreads ==
    \/ \E t \in Threads : Call(t)
    \/ \E t \in Threads : Member(t)
    \/ \E t \in Threads : ReadEntry(t)
    \/ \E t \in Threads : CheckValid(t)
    \/ \E t \in Threads : DelEntry(t)
    \/ \E t \in Threads : Compute(t)
    \/ \E t \in Threads : Store(t)
    \/ \E t \in Threads : CallClear(t)
    \/ \E t \in Threads : ClearRecommendations(t)
    \/ \E t \in Threads : ClearChat(t)
    \/ \E t \in Threads : ClearPlayers(t)
    \/ ThreadTick

SpecThreads == InitThreads /\ [][NextThreads]_vars

----------------------------------------------------------------------------
(* Properties *)

Primary(result) == result.value.primary_recommendation
Age(entry) == now - entry.timestamp

\* C1: a get_recommendations call whose key holds a response stored less than
\* cache_duration ago, with no clear since, returns exactly that response and
\* runs neither the backend nor the rule-based fallback.
C1_CacheHit ==
    [][ ( /\ last'.op = "get_recommendations"
          /\ last'.key \in DOMAIN rec_stored
          /\ Age(rec_stored[last'.key]) < 300 )
        => ( /\ last'.result = Return(rec_stored[last'.key].response)
             /\ ~last'.backend
             /\ ~last'.fallback ) ]_vars

\* a second call found the entry 299 s after it was stored
C1_Witness ==
    /\ last.op = "get_recommendations"
    /\ last.hit
    /\ last.key \in DOMAIN rec_stored
    /\ Age(rec_stored[last.key]) = 299

\* C2: a get_recommendations call whose key holds an entry of age >=
\* cache_duration does not serve it: it recomputes, and after the call the
\* cache holds for that key one entry, stamped now, with the new response.
C2_ExpiryRecomputes ==
    [][ ( /\ last'.op = "get_recommendations"
          /\ last'.key \in DOMAIN recommendation_cache
          /\ Age(recommendation_cache[last'.key]) >= 300 )
        => ( /\ ~last'.hit
             /\ (last'.backend \/ last'.fallback)
             /\ last'.key \in DOMAIN recommendation_cache'
             /\ recommendation_cache'[last'.key] =
                    CacheEntry(now, last'.result.value) ) ]_vars

\* C3: get_recommendations with an empty available_players returns, without
\* raising, the sentinel primary recommendation with confidence 0.0.
C3_EmptyListSentinel ==
    ( /\ last.op = "get_recommendations"
      /\ last.request.available_players = <<>> )
    => ( /\ ~last.result.raised
         /\ Primary(last.result).confidence_score = 0
         /\ Primary(last.result).player.name = "No players available" )

KnownRank(p) == p.rank.t = "num"
KnownPoints(p) == p.projected_points.t = "num"

\* p comes strictly before q in the documented order
Precedes(p, q) ==
    \/ KnownRank(p) /\ ~KnownRank(q)
    \/ KnownRank(p) /\ KnownRank(q) /\ p.rank.n < q.rank.n
    \/ /\ KnownRank(p) /\ KnownRank(q) /\ p.rank.n = q.rank.n
       /\ KnownPoints(p) /\ KnownPoints(q)
       /\ p.projected_points.n > q.projected_points.n

\* the players of a response, primary first
Recommended(response) ==
    <<response.primary_recommendation.player>>
        \o [i \in 1..Len(response.alternative_recommendations) |->
               response.alternative_recommendations[i].player]

\* C4: whenever the fallback answers for a non-empty list, the players it
\* recommends are in the documented order (ascending known rank, 0 included;
\* ties by descending projected_points; unknown ranks last) and no player of
\* the list comes before the primary recommendation.
C4_FallbackOrder ==
    (rb_pc = "done" /\ rb_in # <<>> /\ ~rb_out.raised)
    => LET order == Recommended(rb_out.value)
       IN  /\ \A i, j \in 1..Len(order) : i < j => ~Precedes(order[j], order[i])
           /\ \A k \in 1..Len(rb_in) : ~Precedes(rb_in[k], order[1])

\* C5: whenever the fallback answers for a non-empty list of n players, the
\* primary recommendation has confidence 0.6 and the alternatives are the 2nd
\* and 3rd players of the sorted list (min(2, n-1) of them) with confidence
\* 0.5 and 0.4; A(rank 5), B(rank 2) gives primary B and alternative A at 0.5.
C5_FallbackShape ==
    (rb_pc = "done" /\ rb_in # <<>> /\ ~rb_out.raised)
    => LET response == rb_out.value
           alternatives == response.alternative_recommendations
           order == sorted(rb_in)
       IN  /\ response.primary_recommendation.confidence_score = 6
           /\ Len(alternatives) = Min(2, Len(rb_in) - 1)
           /\ \A i \in 1..Len(alternatives) :
                  /\ alternatives[i].player = order[i + 1]
                  /\ alternatives[i].confidence_score = (IF i = 1 THEN 5 ELSE 4)
           /\ rb_in = ScenarioAB =>
                  /\ response.primary_recommendation.player.name = "B"
                  /\ alternatives = <<Recommendation(ScenarioAB[1], 5)>>

\* the fallback answered for three players or more
C5_Witness ==
    /\ rb_pc = "done"
    /\ Len(rb_in) >= 3
    /\ ~rb_out.raised
    /\ Len(rb_out.value.alternative_recommendations) = 2

BackendFailed(backend_result, available_players) ==
    \/ backend_result.kind \in {"raise", "text"}
    \/ /\ backend_result.kind = "json"
       /\ \A i \in 1..Len(available_players) :
              lower(available_players[i].name) # lower(backend_result.primary)

\* C6: on a cache miss with a backend, if the backend call raises, answers
\* text that cannot be parsed or names a primary player that is not
\* available, get_recommendations raises nothing and returns what the
\* rule-based fallback computes for the available players.
C6_BackendFailureFallsBack ==
    ( /\ last.op = "get_recommendations"
      /\ last.backend
      /\ BackendFailed(last.backend_result, last.request.available_players) )
    => ( /\ ~last.result.raised
         /\ last.result = _rule_based_recommendations(last.request.available_players) )

FirstNames(available_players) ==
    [i \in 1..Min(5, Len(available_players)) |-> available_players[i].name]

\* the two requests agree on what the key is built from
SameKeyFields(r1, r2) ==
    /\ FirstNames(r1.available_players) = FirstNames(r2.available_players)
    /\ r1.user_team.players = r2.user_team.players
    /\ r1.draft_context.current_round = r2.draft_context.current_round
    /\ r1.draft_context.current_pick = r2.draft_context.current_pick

\* C7: a request that agrees with the request of a stored entry on the first
\* 5 names, the roster names and round/pick has that entry's key, and within
\* the TTL receives the response computed for that earlier request.
C7_CoarseKey ==
    [][ last'.op = "get_recommendations"
        => \A k \in DOMAIN rec_stored :
               ( /\ SameKeyFields(last'.request, rec_stored[k].request)
                 /\ Age(rec_stored[k]) < 300 )
               => ( /\ last'.key = k
                    /\ last'.result = Return(rec_stored[k].response) ) ]_vars

\* a request was served the response of a request with another sixth player
C7_Witness ==
    /\ last.op = "get_recommendations"
    /\ last.hit
    /\ last.key \in DOMAIN rec_stored
    /\ Len(last.request.available_players) >= 6
    /\ Len(rec_stored[last.key].request.available_players) >= 6
    /\ last.request.available_players[6]
           # rec_stored[last.key].request.available_players[6]
    /\ last.result.value = rec_stored[last.key].response

\* the two chat requests agree after normalisation
SameChatKeyFields(r1, r2) ==
    /\ strip(lower_message(r1.message)) = strip(lower_message(r2.message))
    /\ str(r1.draft_context) = str(r2.draft_context)

\* C8: a chat request equal, after lower-casing and trimming the message and
\* taking the text form of draft_context, to the request of an entry stored
\* less than 300 s ago has that entry's key and returns its response without
\* recomputing; an entry of age >= 300 s is replaced by a recomputed one.
C8_ChatCache ==
    [][ last'.op = "chat"
        => /\ \A k \in DOMAIN chat_stored :
                  ( /\ SameChatKeyFields(last'.request, chat_stored[k].request)
                    /\ Age(chat_stored[k]) < 300 )
                  => ( /\ last'.key = k
                       /\ last'.result = Return(chat_stored[k].response)
                       /\ ~last'.backend
                       /\ ~last'.fallback )
           /\ ( /\ last'.key \in DOMAIN chat_cache
                /\ Age(chat_cache[last'.key]) >= 300 )
              => ( /\ ~last'.hit
                   /\ (last'.backend \/ last'.fallback)
                   /\ chat_cache'[last'.key] = CacheEntry(now, last'.result.value) )
      ]_vars

\* a chat request was served the response stored for a differently written message
C8_Witness ==
    /\ last.op = "chat"
    /\ last.hit
    /\ last.key \in DOMAIN chat_stored
    /\ chat_stored[last.key].request.message # last.request.message
    /\ last.result.value = chat_stored[last.key].response

Mentions(message, piece) == Contains(lower_message(message), piece)

PickAdvice == "Based on your current draft position, I recommend taking the best available player"
RoundStrategy == "Focus on building a balanced team."
ScarcityAdvice == "Consider your team's current position distribution"
GenericHelp == "I'm here to help with your fantasy football draft!"

\* C9: the rule-based chat answers by the first matching row of: "recommend"
\* or "who should" -> pick advice; "strategy" -> round strategy; "position"
\* -> scarcity advice; otherwise generic help; always with confidence 0.6.
C9_RuleBasedChatTable ==
    ch_pc = "done"
    => LET asks_pick == Mentions(ch_in, <<"recommend">>)
                            \/ Mentions(ch_in, <<"who", " ", "should">>)
           asks_strategy == Mentions(ch_in, <<"strategy">>)
           asks_position == Mentions(ch_in, <<"position">>)
       IN  /\ ch_out.confidence = 6
           /\ asks_pick => ch_out.response = PickAdvice
           /\ (~asks_pick /\ asks_strategy) => ch_out.response = RoundStrategy
           /\ (~asks_pick /\ ~asks_strategy /\ asks_position)
                  => ch_out.response = ScarcityAdvice
           /\ (~asks_pick /\ ~asks_strategy /\ ~asks_position)
                  => ch_out.response = GenericHelp
           /\ ch_in = ScenarioMessage => ch_out = ChatResponse(RoundStrategy, 6)

\* a message matching two rows was answered
C9_Witness ==
    /\ ch_pc = "done"
    /\ Mentions(ch_in, <<"recommend">>)
    /\ Mentions(ch_in, <<"strategy">>)
    /\ ch_out.response = PickAdvice

\* C10: right after clear_cache the three caches are empty, get_cache_stats
\* reports three sizes of 0, and a request is a miss that recomputes.
C10_ClearAll ==
    /\ [](last.op = "clear_cache"
            => /\ DOMAIN recommendation_cache = {}
               /\ DOMAIN chat_cache = {}
               /\ DOMAIN player_cache = {})
    /\ [][ (last.op = "clear_cache" /\ last'.op = "get_cache_stats")
           => last'.stats = Stats(0, 0, 0) ]_vars
    /\ [][ (last.op = "clear_cache" /\ last'.op \in {"get_recommendations", "chat"})
           => (~last'.hit /\ (last'.backend \/ last'.fallback)) ]_vars

\* clear_cache ran on a recommendation cache and a chat cache that held entries
C10_Witness ==
    /\ last.op = "clear_cache"
    /\ last.before.recommendation_cache_size > 0
    /\ last.before.chat_cache_size > 0

\* the recommendation entry a request would be answered from, if it is live
Live(cache, request) ==
    LET r == get_recommendations(FALSE, cache, request, NotCalled)
    IN  IF r.hit THEN <<r.result>> ELSE <<>>

\* C11: clear_chat_cache empties the chat cache and leaves the recommendation
\* cache, the player cache and cache_duration as they were: every
\* recommendation entry that was live before the call is served as a hit, with
\* the same response, after it.
C11_ClearChatOnly ==
    [][ last'.op = "clear_chat_cache"
        => ( /\ DOMAIN chat_cache' = {}
             /\ recommendation_cache' = recommendation_cache
             /\ player_cache' = player_cache
             /\ get_cache_stats(Service)'.cache_duration_seconds
                    = last'.before.cache_duration_seconds
             /\ get_cache_stats(Service)'.recommendation_cache_size
                    = last'.before.recommendation_cache_size
             /\ \A request \in FewRecRequests :
                    Live(recommendation_cache, request) # <<>>
                    => Live(recommendation_cache', request)
                           = Live(recommendation_cache, request) ) ]_vars

\* clear_chat_cache ran on a chat cache that held entries while a
\* recommendation entry was live
C11_Witness ==
    /\ last.op = "clear_chat_cache"
    /\ last.before.chat_cache_size > 0
    /\ last.before.recommendation_cache_size > 0
    /\ \E request \in FewRecRequests : Live(recommendation_cache, request) # <<>>

\* the entries of a cache that a handler working on `key` leaves alone
Others(cache, key) == [k \in DOMAIN cache \ {key} |-> cache[k]]

\* C12: between two reset_singleton calls every RAGService() yields the same
\* instance and the body of __init__ runs at most once, so the entries one
\* access stored are there for every later access, whatever handler constructs
\* the service again; after reset_singleton the next construction yields a
\* fresh instance whose three caches are empty.
C12_Singleton ==
    /\ [](init_runs <= 1)
    /\ [](last.op = "reset_singleton" => ~instance)
    /\ [][ (instance /\ last'.op \notin {"reset_singleton", "tick"})
           => ( /\ instance'
                /\ init_runs' = init_runs
                /\ last'.op = "get_recommendations"
                   => ( /\ Others(recommendation_cache', last'.key)
                           = Others(recommendation_cache, last'.key)
                        /\ chat_cache' = chat_cache
                        /\ player_cache' = player_cache )
                /\ last'.op = "chat"
                   => ( /\ Others(chat_cache', last'.key) = Others(chat_cache, last'.key)
                        /\ recommendation_cache' = recommendation_cache
                        /\ player_cache' = player_cache )
                /\ last'.op = "get_cache_stats"
                   => ( /\ recommendation_cache' = recommendation_cache
                        /\ chat_cache' = chat_cache
                        /\ player_cache' = player_cache ) ) ]_vars
    /\ [][ (~instance /\ instance')
           => ( /\ init_runs' = 1
                /\ ~last'.hit
                /\ last'.op = "get_recommendations"
                   => ( /\ DOMAIN recommendation_cache' \subseteq {last'.key}
                        /\ DOMAIN chat_cache' = {} )
                /\ last'.op = "chat"
                   => ( /\ DOMAIN chat_cache' \subseteq {last'.key}
                        /\ DOMAIN recommendation_cache' = {} )
                /\ last'.op \notin {"get_recommendations", "chat"}
                   => ( /\ DOMAIN recommendation_cache' = {}
                        /\ DOMAIN chat_cache' = {} )
                /\ DOMAIN player_cache' = {}
                /\ last'.op = "get_cache_stats" => last'.stats = Stats(0, 0, 0) ) ]_vars

\* a request was answered from an entry that an earlier access to the one
\* instance stored, while the chat cache held an entry of another access
C12_Witness ==
    /\ instance
    /\ init_runs = 1
    /\ last.op = "get_recommendations"
    /\ last.hit
    /\ DOMAIN chat_cache # {}

\* C13: the strategy of an instance is fixed when it is constructed: no
\* handler changes it, an instance without a language model (so every instance
\* constructed without a credential) never calls the backend, and a backend
\* call that fails falls back for that request only, the instance keeping
\* its language model so that every later cache miss calls the backend again.
C13_StrategyFixed ==
    /\ [](~credential => ~llm /\ ~last.backend)
    /\ [][ (instance /\ last'.op # "reset_singleton") => llm' = llm ]_vars
    /\ [][ (instance /\ ~llm) => ~last'.backend ]_vars
    /\ [][ (last'.backend /\ last'.backend_result.kind = "raise")
           => (last'.fallback /\ llm') ]_vars
    /\ [][ (instance /\ llm /\ last'.op \in {"get_recommendations", "chat"}
              /\ ~last'.hit)
           => last'.backend ]_vars

\* a backend call failed, the request was answered by the rule-based fallback
\* and the instance still holds its language model
C13_Witness ==
    /\ instance
    /\ llm
    /\ last.op = "get_recommendations"
    /\ last.backend
    /\ last.backend_result.kind = "raise"
    /\ last.fallback
    /\ ~last.result.raised
    /\ Primary(last.result).confidence_score = 6

SameIdentity(p, q) ==
    /\ p.id = q.id
    /\ p.name = q.name
    /\ p.position = q.position
    /\ p.team = q.team

\* the Sleeper player enrich_recommendation_players finds for a local player
\* of the request, <<>> if none
SleeperPlayerOf(player, input) ==
    LET lookup == sleeper_lookup(get_sleeper_players_by_names(
                                     input.api_service.cache, NamesOf(input.players)))
    IN  IF /\ ~input.api_service.raises
           /\ NamesOf(input.players) # <<>>
           /\ lower_message(player.name) \in DOMAIN lookup
        THEN <<lookup[lower_message(player.name)]>>
        ELSE <<>>

\* C14: enrich_recommendation_players returns a list as long as its input in
\* which the player at each index has the id, name, position and team of the
\* input player at that index, whether a Sleeper record was found for it or
\* not and whether the lookup raised or not.
C14_EnrichKeepsIdentity ==
    en_pc = "done"
    => /\ Len(en_out.players) = Len(en_in.players)
       /\ \A i \in 1..Len(en_in.players) :
              SameIdentity(en_out.players[i], en_in.players[i])

\* a list of two came back with its first player enriched from a Sleeper
\* record of another id and its second player, unknown to Sleeper, as it was
C14_Witness ==
    /\ en_pc = "done"
    /\ Len(en_in.players) = 2
    /\ SleeperPlayerOf(en_in.players[1], en_in) # <<>>
    /\ SleeperPlayerOf(en_in.players[1], en_in)[1].id # en_in.players[1].id
    /\ en_out.players[1].rank # en_in.players[1].rank
    /\ SleeperPlayerOf(en_in.players[2], en_in) = <<>>
    /\ en_out.players[2] = en_in.players[2]

Present(v) == v # NoneVal /\ v # NA

\* C16: for a player a Sleeper record was found for, projected_points is the
\* local value when that is present and not "N/A" (0 included), else the
\* Sleeper value, and rank, adp, value_score, injury_status, age and
\* experience are the Sleeper values; a player no record was found for comes
\* back with every field as it was.
C16_Precedence ==
    en_pc = "done"
    => \A i \in 1..Len(en_in.players) :
           LET player == en_in.players[i]
               out == en_out.players[i]
               found == SleeperPlayerOf(player, en_in)
           IN  IF found # <<>>
               THEN /\ out.projected_points =
                           (IF Present(player.projected_points)
                            THEN player.projected_points
                            ELSE found[1].projected_points)
                    /\ out.rank = found[1].rank
                    /\ out.adp = found[1].adp
                    /\ out.value_score = found[1].value_score
                    /\ out.injury_status = found[1].injury_status
                    /\ out.age = found[1].age
                    /\ out.experience = found[1].experience
               ELSE out = player

\* C17: when the Sleeper lookup raises, enrich_recommendation_players returns
\* the input players, field for field and in order.
C17_EnrichFailureKeepsInput ==
    (en_pc = "done" /\ en_in.api_service.raises) => en_out.players = en_in.players

\* the lookup raised for a list of two named players
C17_Witness ==
    /\ en_pc = "done"
    /\ en_in.api_service.raises
    /\ Len(en_in.players) = 2
    /\ NamesOf(en_in.players) # <<>>
    /\ en_in.players[1] # en_in.players[2]
    /\ en_out.players = en_in.players

\* the players the Sleeper cache maps to
MappedPlayers(cache) ==
    { p \in { _map_sleeper_player(cache.items[i].player_id, cache.items[i].id_hash,
                                  cache.items[i].player_data) : i \in 1..Len(cache.items) } :
          p # <<>> }

\* two names are equal but for case, one is part of the other, or they share
\* a word
TolerantMatch(name, sleeper_name) ==
    LET a == lower_message(name)
        b == lower_message(sleeper_name)
    IN  \/ a = b
        \/ In(a, b)
        \/ In(b, a)
        \/ \E i \in 1..Len(split(a)), j \in 1..Len(split(b)) : split(a)[i] = split(b)[j]

EnrichedFrom(out, sleeper_player) ==
    /\ out.rank = sleeper_player.rank
    /\ out.adp = sleeper_player.adp
    /\ out.value_score = sleeper_player.value_score
    /\ out.injury_status = sleeper_player.injury_status
    /\ out.age = sleeper_player.age
    /\ out.experience = sleeper_player.experience

\* C18: a named input player is enriched from a Sleeper player whenever its
\* name matches that player's name case-insensitively, exactly, by one being
\* part of the other, or by a shared word.
C18_TolerantMatching ==
    (en_pc = "done" /\ ~en_in.api_service.raises)
    => \A i \in 1..Len(en_in.players) :
           LET player == en_in.players[i]
               candidates == { p \in MappedPlayers(en_in.api_service.cache) :
                                   TolerantMatch(player.name, p[1].name) }
           IN  (NonEmpty(player.name) /\ candidates # {})
               => \E p \in candidates : EnrichedFrom(en_out.players[i], p[1])

\* C19: for every Sleeper record with a search rank of 1 or more that is not
\* the unranked marker, and every player id, the synthetic ADP is
\* max(1, rank + offset) with offset in -10..9 and the value_score lies in
\* [1.0, 10.0].
C19_ValueScoreClamp ==
    ( /\ ms_pc = "done"
      /\ ms_out # <<>>
      /\ ms_in.player_data.search_rank.t = "num"
      /\ ms_in.player_data.search_rank.n >= 1
      /\ ms_in.player_data.search_rank.n # NoSearchRank )
    => LET rank == ms_in.player_data.search_rank.n
           offset == ms_in.id_hash - 10
       IN  /\ offset \in (0 - 10)..9
           /\ ms_out[1].rank = Num(rank)
           /\ ms_out[1].adp = Num(10 * (IF rank + offset > 1 THEN rank + offset ELSE 1))
           /\ ms_out[1].value_score.t = "num"
           /\ ms_out[1].value_score.n >= 10
           /\ ms_out[1].value_score.n <= 100

\* a player of rank 5 was mapped with the latest synthetic ADP, 14.0
C19_Witness ==
    /\ ms_pc = "done"
    /\ ms_out # <<>>
    /\ ms_in.player_data.search_rank = Num(5)
    /\ ms_in.id_hash = 19
    /\ ms_out[1].adp = Num(140)
    /\ ms_out[1].value_score = Num(79)

\* C20: when an APIService is constructed and the cache has no timestamp or
\* is 24 hours old or older, one fetch is attempted, and if it fails in any
\* way (exception, timeout, status other than 200) while a cache file exists
\* the in-memory cache is the content of that file; when the cache is
\* younger than 24 hours it is loaded and no fetch is attempted.
C20_DegradedMode ==
    sc_api.op = "init"
    => LET before == sc_api.before
           api == sc_api.api
           stale == \/ before.timestamp_file = <<>>
                    \/ sc_api.at - before.timestamp_file[1] >= _cache_duration
           failed == api.fetch.kind \in {"raise", "status"}
       IN  /\ stale => api.fetch # NoFetch
           /\ (stale /\ failed /\ before.cache_file # <<>>)
              => api.cache = before.cache_file
           /\ ~stale => (api.cache = before.cache_file /\ api.fetch = NoFetch)

\* a position string that names no member of Position, whatever its case
UnknownPosition(position) == position # "" /\ upper(position) \notin Positions

\* C21: GET /players?position=, GET /players/top/{position} and GET
\* /recommendations/position/{position} answer an unknown position string
\* with status 400 and a detail naming the string, and PUT /players/{id} with
\* a body of another id answers 400 and leaves the catalogue file as it was.
C21_ValidationErrors ==
    /\ ( /\ pl_last.op \in {"get_players", "get_top_players_by_position",
                            "get_position_recommendations"}
         /\ pl_last.position # <<>>
         /\ UnknownPosition(pl_last.position[1]) )
       => ( /\ pl_last.response.status_code = 400
            /\ \E i \in 1..Len(pl_last.response.detail) :
                   pl_last.response.detail[i] = pl_last.position[1] )
    /\ ( /\ pl_last.op = "update_player"
         /\ pl_last.players[1].id # pl_last.player_id )
       => ( /\ pl_last.response.status_code = 400
            /\ pl_file = pl_last.before )

\* the handlers that change the catalogue
Mutations ==
    {"create_player", "update_player", "create_players_bulk", "delete_player",
     "populate_mock_data", "enrich_players"}

\* the last handler changed the catalogue of its PlayerService or saved it,
\* and no write to the file failed
CompletedMutation ==
    /\ pl_last.op \in Mutations
    /\ pl_last.response.status_code = 200
    /\ pl_last.io \notin {"not opened", "cut"}
    /\ \/ pl_last.io = "written"
       \/ pl_last.players_cache # load_player_data(pl_last.before)

\* C22: after a completed mutation of the catalogue without I/O error the
\* file holds the records of the in-memory catalogue, in order, so that a
\* PlayerService constructed afterwards loads the same catalogue, in which
\* every id occurs once and every key is the id of its record.
C22_PersistenceRoundTrip ==
    CompletedMutation
    => LET players_cache == pl_last.players_cache
       IN  /\ pl_file = JsonFile([i \in 1..Len(players_cache) |->
                                     JsonRecord(players_cache[i].value)])
           /\ load_player_data(pl_file) = players_cache
           /\ \A i, j \in 1..Len(players_cache) :
                  players_cache[i].key = players_cache[j].key => i = j
           /\ \A i \in 1..Len(players_cache) :
                  players_cache[i].key = players_cache[i].value.id

\* when the key of thread t was last computed, <<>> if not since the last clear
LastComputed(t) ==
    LET computed == CacheOf(th_computed, th[t].op)
    IN  IF th[t].cache_key[1] \in DOMAIN computed
        THEN <<computed[th[t].cache_key[1]]>> ELSE <<>>

\* C23: where the calls run to completion, a call computes a response only if
\* no response was computed for its key, since the last clear, less than
\* cache_duration ago; where the statements of two calls interleave, both
\* calls can find no live entry, compute and store, the later store replacing
\* the earlier.
C23_DoubleComputation ==
    [][ \A t \in Threads :
            ( /\ th_host.mode = "run to completion"
              /\ th[t].pc = "compute"
              /\ th'[t].pc = "store" )
            => ( \/ LastComputed(t) = <<>>
                 \/ th_now - LastComputed(t)[1] >= cache_duration ) ]_vars

\* two interleaved get_recommendations calls of one key both computed at the
\* same instant and both stored: the cache holds the response of one and not
\* that of the other
C23_Witness ==
    /\ th_host.mode = "interleaved"
    /\ th_now = 0
    /\ \A t \in Threads :
           /\ th[t].pc = "returned"
           /\ th[t].op = "get_recommendations"
           /\ th[t].computed
    /\ th[1].cache_key = th[2].cache_key
    /\ th[1].response # th[2].response
    /\ th[1].cache_key[1] \in DOMAIN th_caches.recommendation_cache
    /\ th_caches.recommendation_cache[th[1].cache_key[1]].response
           \in {th[1].response[1], th[2].response[1]}

\* C24: in get_recommendations, chat, clear_cache and clear_chat_cache, however
\* the statements of two callers interleave, no cache step (membership test,
\* entry read, expiry deletion, store) raises.
C24_CacheStepsNeverFail ==
    \A t \in Threads : th[t].pc = "raised" => th[t].error # "KeyError"

\* the keys whose entry a step removed or replaced
Left(cache, cache_after) ==
    {k \in DOMAIN cache : k \notin DOMAIN cache_after \/ cache_after[k] # cache[k]}

\* the entries of a cache that are stale now
StaleKeys(cache) == {k \in DOMAIN cache : Age(cache[k]) >= cache_duration}

\* C25: an entry leaves the recommendation or the chat cache only in a request
\* for its own key that finds it stale, or in a clear (clear_cache,
\* clear_chat_cache for the chat cache, or the reset that drops the instance
\* with its caches); get_cache_stats changes no state and reports the number
\* of entries of each cache, stale ones included.
C25_LazyEviction ==
    /\ [][ \A k \in Left(recommendation_cache, recommendation_cache') :
               \/ last'.op \in {"clear_cache", "reset_singleton"}
               \/ /\ last'.op = "get_recommendations"
                  /\ last'.key = k
                  /\ k \in StaleKeys(recommendation_cache) ]_vars
    /\ [][ \A k \in Left(chat_cache, chat_cache') :
               \/ last'.op \in {"clear_cache", "clear_chat_cache", "reset_singleton"}
               \/ /\ last'.op = "chat"
                  /\ last'.key = k
                  /\ k \in StaleKeys(chat_cache) ]_vars
    /\ [][ last'.op = "get_cache_stats"
           => ( /\ recommendation_cache' = recommendation_cache
                /\ chat_cache' = chat_cache
                /\ player_cache' = player_cache
                /\ UNCHANGED <<credential, now, rec_stored, chat_stored>>
                /\ instance => UNCHANGED <<instance, llm, init_runs>>
                /\ last'.stats.recommendation_cache_size
                       = Cardinality(DOMAIN recommendation_cache)
                /\ last'.stats.chat_cache_size = Cardinality(DOMAIN chat_cache)
                /\ last'.stats.player_cache_size = Cardinality(DOMAIN player_cache) ) ]_vars

\* get_cache_stats counted a stale recommendation entry and a stale chat
\* entry that no request had asked for again
C25_Witness ==
    /\ last.op = "get_cache_stats"
    /\ StaleKeys(recommendation_cache) # {}
    /\ StaleKeys(chat_cache) # {}
    /\ last.stats.recommendation_cache_size = Cardinality(DOMAIN recommendation_cache)
    /\ last.stats.chat_cache_size = Cardinality(DOMAIN chat_cache)


\* rank and projected_points are each a number or unknown (None or "N/A")
NumberOrUnknown(v) == v.t \in {"num", "None", "str"}

\* C26: for every non-empty list whose players' rank and projected_points are
\* each a number, None or "N/A", _rule_based_recommendations returns a
\* response and does not raise.
C26_FallbackTotal ==
    ( /\ rb_pc = "done"
      /\ rb_in # <<>>
      /\ \A i \in 1..Len(rb_in) :
             NumberOrUnknown(rb_in[i].rank) /\ NumberOrUnknown(rb_in[i].projected_points) )
    => ~rb_out.raised


C28_BoundedStaleness ==
    /\ [][ (last'.op = "get_recommendations" /\ last'.hit)
           => ( /\ last'.key \in DOMAIN rec_stored
                /\ last'.result.value = rec_stored[last'.key].response
                /\ now - rec_stored[last'.key].timestamp < cache_duration
                /\ recommendation_cache'[last'.key] = recommendation_cache[last'.key]
                /\ recommendation_cache'[last'.key].timestamp
                       = rec_stored[last'.key].timestamp ) ]_vars
    /\ [][ (last'.op = "chat" /\ last'.hit)
           => ( /\ last'.key \in DOMAIN chat_stored
                /\ last'.result.value = chat_stored[last'.key].response
                /\ now - chat_stored[last'.key].timestamp < cache_duration
                /\ chat_cache'[last'.key] = chat_cache[last'.key]
                /\ chat_cache'[last'.key].timestamp
                       = chat_stored[last'.key].timestamp ) ]_vars

\* a chat answer was served from the cache 299 s after it was computed, while
\* the recommendation cache holds an entry of the same age
C28_Witness ==
    /\ last.op = "chat"
    /\ last.hit
    /\ Age(chat_cache[last.key]) = cache_duration - 1
    /\ \E k \in DOMAIN recommendation_cache :
           Age(recommendation_cache[k]) = cache_duration - 1


\* the stored entry holds what the rule-based fallback answers to the request
\* it was computed for
FallbackStored(stored, fallback_result) ==
    ~fallback_result.raised /\ stored.response = fallback_result.value

\* C29: when the backend raises on a cache miss of get_recommendations or
\* chat, the rule-based response is returned and stored under the request's
\* key, stamped now; and a request identical to the one of a stored rule-based
\* response less than cache_duration old is answered with that response
\* without the backend being called, although a backend is configured.
C29_FallbackCached ==
    /\ [][ ( /\ last'.op = "get_recommendations"
             /\ ~last'.hit
             /\ last'.backend_result.kind = "raise" )
           => ( /\ ~last'.result.raised
                /\ last'.result
                       = _rule_based_recommendations(last'.request.available_players)
                /\ last'.key \in DOMAIN recommendation_cache'
                /\ recommendation_cache'[last'.key]
                       = CacheEntry(now, last'.result.value) ) ]_vars
    /\ [][ ( /\ last'.op = "chat"
             /\ ~last'.hit
             /\ last'.backend_result.kind = "raise" )
           => ( /\ last'.result = Return(_rule_based_chat(last'.request))
                /\ last'.key \in DOMAIN chat_cache'
                /\ chat_cache'[last'.key] = CacheEntry(now, last'.result.value) ) ]_vars
    /\ [][ ( /\ last'.op = "get_recommendations"
             /\ llm'
             /\ last'.key \in DOMAIN rec_stored
             /\ rec_stored[last'.key].request = last'.request
             /\ FallbackStored(rec_stored[last'.key],
                               _rule_based_recommendations(last'.request.available_players))
             /\ Age(rec_stored[last'.key]) < cache_duration )
           => ( /\ last'.hit
                /\ ~last'.backend
                /\ last'.result = Return(rec_stored[last'.key].response) ) ]_vars
    /\ [][ ( /\ last'.op = "chat"
             /\ llm'
             /\ last'.key \in DOMAIN chat_stored
             /\ chat_stored[last'.key].request = last'.request
             /\ FallbackStored(chat_stored[last'.key],
                               Return(_rule_based_chat(last'.request)))
             /\ Age(chat_stored[last'.key]) < cache_duration )
           => ( /\ last'.hit
                /\ ~last'.backend
                /\ last'.result = Return(chat_stored[last'.key].response) ) ]_vars


\* the players that the records of the Sleeper cache map to and whose name
\* equals the given name, case aside
RecordsNamed(cache, name) ==
    IF ~cache.present THEN {}
    ELSE { _map_sleeper_player(cache.items[k].player_id, cache.items[k].id_hash,
                               cache.items[k].player_data)[1] :
               k \in { j \in 1..Len(cache.items) :
                         LET mapped == _map_sleeper_player(cache.items[j].player_id,
                                                           cache.items[j].id_hash,
                                                           cache.items[j].player_data)
                         IN  /\ mapped # <<>>
                             /\ lower_message(mapped[1].name) = lower_message(name) } }

\* C30: when the Sleeper data can be read, every player of available_players
\* whose name equals, case aside, the name of a Sleeper record comes back
\* enriched from such a record, wherever it stands in the list.
C30_EnrichAnyPosition ==
    (en_pc = "done" /\ ~en_in.api_service.raises)
    => \A i \in 1..Len(en_in.players) :
           RecordsNamed(en_in.api_service.cache, en_in.players[i].name) # {}
           => \E sleeper_player \in
                      RecordsNamed(en_in.api_service.cache, en_in.players[i].name) :
                  en_out.players[i] = Enriched(en_in.players[i], sleeper_player)

====
